---- MODULE Spec2Model ----
(***************************************************************************)
(* Position-transition and order-submission behaviour of the trading bots  *)
(* ExperimentalColorTrader (experimental_color_trader.py), OrderBookHunter *)
(* (order_book_hunter.py) and UltimateScalpingBot                          *)
(* (ultimate_scalping_bot.py).                                             *)
(*                                                                         *)
(* Conventions.  Python None is None for a string field, NoneNum for a     *)
(* number, and a record of kind "None" for a dictionary.  Prices are       *)
(* integers in cents, sizes integers in hundredths of a SOL, so            *)
(* round(x, 2) is a rounding to an integer.  The color trader's time is    *)
(* counted in half seconds (its loop sleeps 0.5 s), the hunter's wall      *)
(* clock in milliseconds (its nonces are int(time.time() * 1000)).         *)
(***************************************************************************)
EXTENDS Integers, Sequences, FiniteSets, TLC

None == "None"
NoneNum == 0 - 1
NoneData == [type |-> "None", totalSz |-> 0, avgPx |-> 0]
NoneOrder == [kind |-> "None", b |-> FALSE, p |-> 0, s |-> 0, r |-> FALSE]
NoneResult == [kind |-> "None", statuses |-> <<>>]

\* ------------------------------------------------------------------------
\* Bounds of the model
\* ------------------------------------------------------------------------

\* The color trader's clock stops advancing at MaxTime half seconds.
MaxTime == 32

\* The hunter's clock stops advancing at MaxClock milliseconds.
MaxClock == 34000

\* ------------------------------------------------------------------------
\* Program constants
\* ------------------------------------------------------------------------

\* self.position_usd = 4000.0
position_usd == 4000
\* self.signal_cooldown = 2.0 seconds, in half seconds
signal_cooldown == 4
\* await asyncio.sleep(10.0) in flip_position, in half seconds
SettlementDelay == 20
\* await asyncio.sleep(0.5) at the end of every loop iteration, in half seconds
LoopSleep == 1

\* ------------------------------------------------------------------------
\* Arithmetic helpers
\* ------------------------------------------------------------------------

\* round(n / d) for positive integers, ties to even as Python's round().
RoundDiv(n, d) ==
    LET q == n \div d
        r == n % d
    IN  IF 2 * r < d THEN q
        ELSE IF 2 * r > d THEN q + 1
        ELSE IF q % 2 = 0 THEN q ELSE q + 1

Max(a, b) == IF a >= b THEN a ELSE b
Min(a, b) == IF a <= b THEN a ELSE b

\* ========================================================================
\* ExperimentalColorTrader
\* ========================================================================

VARIABLES
    \* fields of ExperimentalColorTrader
    current_position,     \* "long", "short" or None
    position_open,        \* BOOLEAN
    entry_order_data,     \* the filled record of the entry, or None
    position_size,        \* filled size of the entry, or None
    position_direction,   \* "long", "short" or None
    current_signal,       \* "LONG", "SHORT" or None
    last_signal_time,
    \* control state of run() and of the calls it has in progress
    t_pc,                 \* where run() stands
    t_now,                \* time.time()
    t_current_time,       \* run()'s local current_time
    t_tick,               \* run()'s local signal, and what the last
                          \* iteration that looked at the screen did
    t_price,              \* flip_position's local current_price
    t_success,            \* flip_position's return value
    t_inflight,           \* the order POSTed and not yet answered, or None
    t_result,             \* place_order_raw's last return value
    \* history of the flip_position call in progress or just returned, and
    \* of the enter_position or close_position call in progress or last returned
    t_flip,
    t_call

traderPos == <<current_position, position_open, entry_order_data,
               position_size, position_direction>>

traderVars == <<current_position, position_open, entry_order_data,
                position_size, position_direction, current_signal,
                last_signal_time, t_pc, t_now, t_current_time, t_tick,
                t_price, t_success, t_inflight, t_result, t_flip, t_call>>

VARIABLES
    \* fields of OrderBookHunter
    h_position_open,
    h_entry_time,
    h_entry_price,
    h_entry_order_data,   \* statuses[0] of the entry when filled, or None
    h_position_direction,
    h_position_size,
    \* control state of run() and of the calls it has in progress
    h_pc,
    h_clock,              \* int(time.time() * 1000)
    h_inflight,           \* the action POSTed and not yet answered
    h_local,              \* enter_position's direction and entry_price
    \* history: the nonce of the last POST, and the enter_position and
    \* close_position calls of the current iteration of run
    h_last_nonce,
    h_entry,
    h_close

hunterPos == <<h_position_open, h_entry_time, h_entry_price,
               h_entry_order_data, h_position_direction, h_position_size>>

hunterVars == <<h_position_open, h_entry_time, h_entry_price,
                h_entry_order_data, h_position_direction, h_position_size,
                h_pc, h_clock, h_inflight, h_local, h_last_nonce, h_entry, h_close>>

VARIABLES
    \* control state of UltimateScalpingBot.execute_scalping_strategy
    s_pc,
    s_entry_price,        \* its local entry_price
    s_inflight,           \* the grouped action POSTed and not yet answered
    s_order_id,           \* what place_grouped_order returned
    \* history: the response place_grouped_order received, the number of
    \* POSTs made, and what the last poll of the monitoring loop saw
    s_response,
    s_posts,
    s_poll

scalperVars == <<s_pc, s_entry_price, s_inflight, s_order_id, s_response,
                 s_posts, s_poll>>

VARIABLES
    \* globals of web_server.py
    w_bot_running,        \* bot_running
    w_bot,                \* bot_instance: the fields the dashboard uses, or None
    w_status,             \* current_status
    w_trade_history,      \* trade_history
    \* the process and its threads
    w_pc,                 \* "off" until start_web_interface.main serves
    w_live,               \* LIVE_TRADING=true is set in the environment
    w_workers,            \* threads inside run_bot_with_updates
    \* history: the iterations run_bot_with_updates has made and what the
    \* last one met, the order POSTs made by any path of the dashboard, who
    \* wrote each key of current_status last and in which iteration, the last
    \* answer to a request, and what the last websocket handshake sent
    w_tickno,
    w_tick,
    w_posts,
    w_written,
    w_reply,
    w_seen

webVars == <<w_bot_running, w_bot, w_status, w_trade_history, w_pc, w_live,
             w_workers, w_tickno, w_tick, w_posts, w_written, w_reply, w_seen>>

VARIABLES
    \* one call of a function that uses no field: which, with what, and
    \* what came back
    p_fn,
    p_arg,
    p_out

pureVars == <<p_fn, p_arg, p_out>>

vars == <<traderVars, hunterVars, scalperVars, webVars, pureVars>>

notTraderVars == <<hunterVars, scalperVars, webVars, pureVars>>
notHunterVars == <<traderVars, scalperVars, webVars, pureVars>>
notScalperVars == <<traderVars, hunterVars, webVars, pureVars>>
notWebVars == <<traderVars, hunterVars, scalperVars, pureVars>>
notPureVars == <<traderVars, hunterVars, scalperVars, webVars>>

\* Prices the feed can report, in cents: get_current_price returns one of
\* them, or None when the feed fails or has no SOL entry.
Prices == {10000, 20000}

Signals == {"LONG", "SHORT"}

Lower(sig) == IF sig = "LONG" THEN "long" ELSE IF sig = "SHORT" THEN "short" ELSE None

\* Python truthiness of the values the position fields hold.
Truthy(v) == v # NoneNum /\ v # 0
TruthyData(d) == d # NoneData

\* History of one flip_position call: the position fields at its entry, and
\* what it has submitted and received so far.
NoFlip == [active |-> FALSE, returned |-> FALSE, new_direction |-> None,
           pre |-> <<>>, had_position |-> FALSE,
           close_sent |-> FALSE, close_answered |-> FALSE,
           close_result |-> NoneResult,
           close_filled |-> FALSE, close_done_at |-> 0,
           entry_sent |-> FALSE, entry_sent_at |-> 0,
           entry_answered |-> FALSE, entry_filled |-> FALSE]

\* The last iteration of run that looked at the screen: the local `signal`
\* (it keeps its value when the capture fails), the direction held when the
\* iteration began, and the branch taken.
NoTick == [signal |-> None, held |-> None, branch |-> None]
Tick(sig, branch) == [signal |-> sig, held |-> current_position, branch |-> branch]

\* History of one enter_position or close_position call: the position fields
\* at its entry, the number of POSTs place_order_raw has made for it, whether
\* it has returned, and what it returned.
NoCall == [name |-> None, pre |-> <<>>, posts |-> 0, returned |-> FALSE,
           result |-> NoneResult, ret |-> FALSE]
Call(n, pos) == [NoCall EXCEPT !.name = n, !.pre = pos]
Posted(call) == [call EXCEPT !.posts = @ + 1]
Returned(call, res, value) ==
    [call EXCEPT !.returned = TRUE, !.result = res, !.ret = value]

\* ---- responses of the exchange to one POST ------------------------------

\* One entry of response.data.statuses.
Filled(sz, px) == [type |-> "filled", totalSz |-> sz, avgPx |-> px]
Resting == [type |-> "resting", totalSz |-> 0, avgPx |-> 0]
StatusError == [type |-> "error", totalSz |-> 0, avgPx |-> 0]

\* A filled status reports a positive size of at most the order's: an IOC
\* order fills in whole or in part.
FillSizes(sz) == {sz} \cup (IF sz \div 2 > 0 THEN {sz \div 2} ELSE {})

LegStatuses(order) ==
    {Filled(s, order.p) : s \in FillSizes(order.s)} \cup {Resting, StatusError}

\* What place_order_raw can come back with for a single order:
\*   exception   requests.post or the signing raised         -> returns None
\*   http_error  status code other than 200                  -> returns None
\*   error_body  200, {"status": "err", "response": "<text>"}
\*   ok          200, {"status": "ok", response.data.statuses = [...]}
TraderResponses(order) ==
    {[kind |-> k, statuses |-> <<>>] : k \in {"exception", "http_error", "error_body"}}
    \cup {[kind |-> "ok", statuses |-> <<>>]}
    \cup {[kind |-> "ok", statuses |-> <<s>>] : s \in LegStatuses(order)}

\* place_order_raw's return value: the parsed body on 200, None otherwise.
PlaceOrderRawResult(resp) ==
    IF resp.kind \in {"exception", "http_error"} THEN NoneResult ELSE resp

\* `result and 'response' in result and 'data' in result['response']`
\* followed by the scan `for status in statuses: if 'filled' in status`.
\* An error body carries a string under 'response': either the test is
\* false, or the subscript raises and the except clause returns False.
HasData(result) == result # NoneResult /\ result.kind = "ok"

FilledStatuses(result) ==
    IF HasData(result)
    THEN {i \in 1..Len(result.statuses) : result.statuses[i].type = "filled"}
    ELSE {}

HasFilled(result) == FilledStatuses(result) # {}

FirstFilled(result) ==
    result.statuses[CHOOSE i \in FilledStatuses(result) :
                        \A j \in FilledStatuses(result) : i <= j]

\* ---- orders --------------------------------------------------------------

\* enter_position, lines 364-392
EntryOrder(direction, entry_price) ==
    LET position_size_sol == Max(1, RoundDiv(position_usd * 100 * 100, entry_price))
        is_buy == (direction = "long")
        order_price == IF is_buy THEN RoundDiv(entry_price * 101, 100)
                                 ELSE RoundDiv(entry_price * 99, 100)
    IN  [kind |-> "entry", b |-> is_buy, p |-> order_price,
         s |-> position_size_sol, r |-> FALSE]

\* close_position, lines 443-474: the size the close order is built with
CloseSize(cur_price) ==
    IF ~Truthy(position_size) THEN RoundDiv(position_usd * 100 * 100, cur_price)
    ELSE position_size

\* A close order on the side of the position held, for the size estimated
\* from the price.
CloseOrderSameSide(cur_price) ==
    LET is_buy == (position_direction = "long")
        close_price == IF is_buy THEN RoundDiv(cur_price * 101, 100)
                                 ELSE RoundDiv(cur_price * 99, 100)
    IN  [kind |-> "close", b |-> is_buy, p |-> close_price,
         s |-> RoundDiv(position_usd * 100 * 100, cur_price), r |-> TRUE]

CloseOrder(cur_price) ==
    LET is_buy == ~(position_direction = "long")
        close_price == IF is_buy THEN RoundDiv(cur_price * 101, 100)
                                 ELSE RoundDiv(cur_price * 99, 100)
    IN  [kind |-> "close", b |-> is_buy, p |-> close_price,
         s |-> CloseSize(cur_price), r |-> TRUE]

TraderInit ==
    /\ current_position = None
    /\ position_open = FALSE
    /\ entry_order_data = NoneData
    /\ position_size = NoneNum
    /\ position_direction = None
    /\ current_signal = None
    /\ last_signal_time = 0
    /\ t_pc = "loop"
    /\ t_now = signal_cooldown
    /\ t_current_time = 0
    /\ t_tick = NoTick
    /\ t_price = NoneNum
    /\ t_success = FALSE
    /\ t_inflight = NoneOrder
    /\ t_result = NoneResult
    /\ t_flip = NoFlip
    /\ t_call = NoCall

\* ---- close_position, lines 427-513 ---------------------------------------

\* A close_position whose finally clause resets the position whatever the
\* result was.
CloseApplyAlwaysReset(result) ==
    /\ entry_order_data' = NoneData
    /\ position_size' = NoneNum
    /\ position_direction' = None
    /\ position_open' = FALSE
    /\ current_position' = None

\* A close_position that leaves position_direction as it was.
CloseApplyKeepsDirection(result) ==
    IF HasFilled(result)
    THEN /\ entry_order_data' = NoneData
         /\ position_size' = NoneNum
         /\ position_open' = FALSE
         /\ current_position' = None
         /\ UNCHANGED position_direction
    ELSE UNCHANGED traderPos

\* The assignments of close_position once place_order_raw has returned
\* `result`: the reset on a filled status (lines 489-494), and the finally
\* clause (lines 507-513), which acts only when position_open is false.
CloseApply(result) ==
    IF HasFilled(result)
    THEN /\ entry_order_data' = NoneData
         /\ position_size' = NoneNum
         /\ position_direction' = None
         /\ position_open' = FALSE
         /\ current_position' = None
    ELSE IF ~position_open
    THEN /\ entry_order_data' = NoneData
         /\ position_size' = NoneNum
         /\ position_direction' = None
         /\ current_position' = None
         /\ UNCHANGED position_open
    ELSE UNCHANGED traderPos

\* A close_position that takes the position for closed as soon as the close
\* order is sent.
CloseSubmitClearsOpen(cur_price) ==
    /\ position_size' = CloseSize(cur_price)
    /\ t_inflight' = CloseOrder(cur_price)
    /\ position_open' = FALSE
    /\ UNCHANGED <<current_position, entry_order_data, position_direction>>

\* close_position up to its POST (lines 437-477), called with position_open
\* true: the price is read, a missing size is estimated, the order is sent.
CloseSubmit(cur_price) ==
    /\ position_size' = CloseSize(cur_price)
    /\ t_inflight' = CloseOrder(cur_price)
    /\ UNCHANGED <<current_position, position_open, entry_order_data,
                   position_direction>>

\* ---- enter_position, lines 357-425 ---------------------------------------

\* An enter_position that records the first status without looking for
\* `filled` in it.
EnterApplyUnchecked(result, direction) ==
    IF HasData(result) /\ Len(result.statuses) > 0
    THEN /\ entry_order_data' = result.statuses[1]
         /\ position_size' = result.statuses[1].totalSz
         /\ position_direction' = direction
         /\ position_open' = TRUE
         /\ current_position' = direction
    ELSE UNCHANGED traderPos

\* The assignments of enter_position once place_order_raw has returned
\* `result` (lines 397-421), followed by flip_position's own assignment of
\* current_position on success (line 543).
EnterApply(result, direction) ==
    IF HasFilled(result)
    THEN LET filled_data == FirstFilled(result)
         IN  /\ entry_order_data' = filled_data
             /\ position_size' = filled_data.totalSz
             /\ position_direction' = direction
             /\ position_open' = TRUE
             /\ current_position' = direction
    ELSE UNCHANGED traderPos

\* ---- run, lines 574-625 --------------------------------------------------

\* The cooldown has not elapsed: the iteration only sleeps.
TraderWait ==
    /\ t_pc = "loop"
    /\ t_now - last_signal_time < signal_cooldown
    /\ t_now + LoopSleep <= MaxTime
    /\ t_now' = t_now + LoopSleep
    /\ UNCHANGED <<traderPos, current_signal, last_signal_time, t_pc,
                   t_current_time, t_tick, t_price, t_success, t_inflight,
                   t_result, t_flip, t_call>>
    /\ UNCHANGED notTraderVars

\* A run that takes a neutral detection for the end of the signal: it
\* forgets current_signal.
TraderNoChangeForgetsSignal(sig) ==
    /\ t_pc = "loop"
    /\ t_now - last_signal_time >= signal_cooldown
    /\ sig \in {"FAIL", None, current_signal}
    /\ t_now + LoopSleep <= MaxTime
    /\ t_now' = t_now + LoopSleep
    /\ t_tick' = IF sig = "FAIL" THEN Tick(t_tick.signal, "failed")
                                  ELSE Tick(sig, "unchanged")
    /\ current_signal' = IF sig = None THEN None ELSE current_signal
    /\ UNCHANGED <<traderPos, last_signal_time, t_pc,
                   t_current_time, t_price, t_success, t_inflight,
                   t_result, t_flip, t_call>>
    /\ UNCHANGED notTraderVars

\* The capture fails (image is None, or an exception reaches line 621), or
\* the detected signal is None or equals current_signal: nothing is assigned.
TraderNoChange(sig) ==
    /\ t_pc = "loop"
    /\ t_now - last_signal_time >= signal_cooldown
    /\ sig \in {"FAIL", None, current_signal}
    /\ t_now + LoopSleep <= MaxTime
    /\ t_now' = t_now + LoopSleep
    /\ t_tick' = IF sig = "FAIL" THEN Tick(t_tick.signal, "failed")
                                  ELSE Tick(sig, "unchanged")
    /\ UNCHANGED <<traderPos, current_signal, last_signal_time, t_pc,
                   t_current_time, t_price, t_success, t_inflight,
                   t_result, t_flip, t_call>>
    /\ UNCHANGED notTraderVars

\* ---- colour classification, lines 53-55 and 208-262 -----------------------

green_target == <<76, 175, 80>>
red_target == <<241, 147, 65>>
color_tolerance == 80

\* The colour get_dominant_color returns when it caught an exception.
NeutralColor == <<128, 128, 128>>

\* Square of color_distance; the comparisons of detect_color_signal are made
\* on the squares, which order as the distances do.
ColorDistance2(color1, color2) ==
    (color1[1] - color2[1]) * (color1[1] - color2[1])
        + (color1[2] - color2[2]) * (color1[2] - color2[2])
        + (color1[3] - color2[3]) * (color1[3] - color2[3])

\* A classifier that picks the nearer target and ignores color_tolerance.
detect_color_signal_nearest(dominant_color) ==
    LET green_distance == ColorDistance2(dominant_color, green_target)
        red_distance == ColorDistance2(dominant_color, red_target)
    IN  IF green_distance < red_distance THEN "LONG"
        ELSE IF red_distance < green_distance THEN "SHORT"
        ELSE None

detect_color_signal(dominant_color) ==
    LET green_distance == ColorDistance2(dominant_color, green_target)
        red_distance == ColorDistance2(dominant_color, red_target)
        tolerance == color_tolerance * color_tolerance
    IN  IF green_distance <= tolerance /\ green_distance < red_distance
        THEN "LONG"
        ELSE IF red_distance <= tolerance /\ red_distance < green_distance
        THEN "SHORT"
        ELSE None

\* The three steps of a tick that can fail.
Failures == {"capture", "dominant_color", "classify"}

\* The signal a tick works with when one step fails: capture_screen_region
\* returns None and the tick does nothing (line 581); get_dominant_color
\* returns the neutral colour, which is then classified; detect_color_signal
\* returns None.
SignalOnFailure(stage) ==
    IF stage = "dominant_color" THEN detect_color_signal(NeutralColor)
    ELSE None

\* A changed signal whose direction is the one already held: lines 618-619.
TraderSameDirection(sig) ==
    /\ t_pc = "loop"
    /\ t_now - last_signal_time >= signal_cooldown
    /\ sig \in Signals /\ sig # current_signal
    /\ Lower(sig) = current_position
    /\ t_now + LoopSleep <= MaxTime
    /\ current_signal' = sig
    /\ last_signal_time' = t_now
    /\ t_now' = t_now + LoopSleep
    /\ t_tick' = Tick(sig, "same_direction")
    /\ UNCHANGED <<traderPos, t_pc, t_current_time, t_price,
                   t_success, t_inflight, t_result, t_flip, t_call>>
    /\ UNCHANGED notTraderVars

\* A flip_position that never closes the position held: it goes to
\* enter_position at once.
FlipPositionStartSkipsClose(sig, price, price2) ==
    /\ t_current_time' = t_now
    /\ t_tick' = Tick(sig, "flip")
    /\ t_price' = IF price = NoneNum THEN price2 ELSE price
    /\ t_result' = NoneResult
    /\ t_inflight' = EntryOrder(Lower(sig), IF price = NoneNum THEN 10000 ELSE price)
    /\ t_pc' = "flip_entry_wait"
    /\ t_flip' = [NoFlip EXCEPT !.active = TRUE,
                                !.new_direction = Lower(sig),
                                !.pre = traderPos,
                                !.had_position =
                                    (position_open /\ TruthyData(entry_order_data)),
                                !.entry_sent = TRUE,
                                !.entry_sent_at = t_now]
    /\ t_call' = Posted(Call("enter_position", traderPos))
    /\ UNCHANGED <<traderPos, t_success>>
    /\ UNCHANGED <<current_signal, last_signal_time, t_now>>

\* A flip_position without the test of line 525: it calls close_position
\* whether or not a position is recorded.
FlipPositionStartAlwaysCloses(sig, price, price2) ==
    /\ t_current_time' = t_now
    /\ t_tick' = Tick(sig, "flip")
    /\ t_price' = IF price = NoneNum THEN 10000 ELSE price
    /\ t_result' = NoneResult
    /\ CloseSubmit(IF price2 = NoneNum THEN 10000 ELSE price2)
    /\ t_pc' = "flip_close_wait"
    /\ t_flip' = [NoFlip EXCEPT !.active = TRUE,
                                !.new_direction = Lower(sig),
                                !.pre = traderPos,
                                !.had_position =
                                    (position_open /\ TruthyData(entry_order_data)),
                                !.close_sent = TRUE]
    /\ t_call' = Posted(Call("close_position", traderPos))
    /\ UNCHANGED t_success
    /\ UNCHANGED <<current_signal, last_signal_time, t_now>>

\* flip_position (lines 515-540) from its entry up to its first POST or to
\* an early return.
\*   price   what get_current_price returns in flip_position
\*   price2  what it returns in close_position
FlipPositionStart(sig, price, price2) ==
    /\ t_current_time' = t_now
    /\ t_tick' = Tick(sig, "flip")
    /\ t_price' = price
    /\ t_result' = NoneResult
    /\ LET start == [NoFlip EXCEPT !.active = TRUE,
                                   !.new_direction = Lower(sig),
                                   !.pre = traderPos,
                                   !.had_position =
                                       (position_open /\ TruthyData(entry_order_data))]
       IN
       IF price = NoneNum
       THEN \* line 518: no price, flip_position returns False
            /\ t_pc' = "flip_return"
            /\ t_success' = FALSE
            /\ t_flip' = [start EXCEPT !.returned = TRUE]
            /\ t_call' = NoCall
            /\ UNCHANGED <<traderPos, t_inflight>>
       ELSE IF position_open /\ TruthyData(entry_order_data)
       THEN IF price2 = NoneNum
            THEN \* line 439: close_position returns False, so does the flip
                 /\ t_pc' = "flip_return"
                 /\ t_success' = FALSE
                 /\ t_flip' = [start EXCEPT !.returned = TRUE]
                 /\ t_call' = Returned(Call("close_position", traderPos), NoneResult, FALSE)
                 /\ UNCHANGED <<traderPos, t_inflight>>
            ELSE /\ CloseSubmit(price2)
                 /\ t_pc' = "flip_close_wait"
                 /\ t_flip' = [start EXCEPT !.close_sent = TRUE]
                 /\ t_call' = Posted(Call("close_position", traderPos))
                 /\ UNCHANGED t_success
       ELSE \* no position to close: enter_position is called at once
            /\ t_inflight' = EntryOrder(Lower(sig), price)
            /\ t_pc' = "flip_entry_wait"
            /\ t_flip' = [start EXCEPT !.entry_sent = TRUE,
                                       !.entry_sent_at = t_now]
            /\ t_call' = Posted(Call("enter_position", traderPos))
            /\ UNCHANGED <<traderPos, t_success>>
    /\ UNCHANGED <<current_signal, last_signal_time, t_now>>

\* A run without the test of line 608: any changed signal starts a flip.
TraderFlipStartAnyDirection(sig, price, price2) ==
    /\ t_pc = "loop"
    /\ t_now - last_signal_time >= signal_cooldown
    /\ sig \in Signals /\ sig # current_signal
    /\ FlipPositionStart(sig, price, price2)
    /\ UNCHANGED notTraderVars

\* A changed signal for a direction other than the one held (lines 603 and
\* 608): run calls flip_position.
TraderFlipStart(sig, price, price2) ==
    /\ t_pc = "loop"
    /\ t_now - last_signal_time >= signal_cooldown
    /\ sig \in Signals /\ sig # current_signal
    /\ Lower(sig) # current_position
    /\ FlipPositionStart(sig, price, price2)
    /\ UNCHANGED notTraderVars

\* The close order of a flip is answered (lines 477-513, then 530-536).
TraderFlipCloseResponse(resp) ==
    /\ t_pc = "flip_close_wait"
    /\ resp \in TraderResponses(t_inflight)
    /\ LET result == PlaceOrderRawResult(resp)
       IN  /\ t_result' = result
           /\ CloseApply(result)
           /\ t_call' = Returned(t_call, result, HasFilled(result))
           /\ t_flip' = [t_flip EXCEPT !.close_answered = TRUE,
                                       !.close_result = result,
                                       !.close_filled = HasFilled(result),
                                       !.close_done_at = t_now,
                                       !.returned = ~HasFilled(result)]
           /\ IF HasFilled(result)
              THEN /\ t_pc' = "flip_sleep"
                   /\ UNCHANGED t_success
              ELSE /\ t_pc' = "flip_return"
                   /\ t_success' = FALSE
    /\ t_inflight' = NoneOrder
    /\ UNCHANGED <<current_signal, last_signal_time, t_now, t_current_time,
                   t_tick, t_price>>
    /\ UNCHANGED notTraderVars

\* enter_position up to its POST, at time `at`.
FlipEnter(at) ==
    /\ t_now' = at
    /\ t_inflight' = EntryOrder(t_flip.new_direction, t_price)
    /\ t_pc' = "flip_entry_wait"
    /\ t_flip' = [t_flip EXCEPT !.entry_sent = TRUE, !.entry_sent_at = at]
    /\ t_call' = Posted(Call("enter_position", traderPos))
    /\ UNCHANGED <<traderPos, current_signal, last_signal_time,
                   t_current_time, t_tick, t_price, t_success, t_result>>

\* A flip_position without the sleep of line 536.
TraderFlipSettleNoDelay ==
    /\ t_pc = "flip_sleep"
    /\ FlipEnter(t_now)
    /\ UNCHANGED notTraderVars

\* A flip_position that starts the entry without awaiting the close.
TraderFlipSettleWithoutAwait ==
    /\ t_pc \in {"flip_close_wait", "flip_sleep"}
    /\ t_now + SettlementDelay <= MaxTime
    /\ FlipEnter(t_now + SettlementDelay)
    /\ UNCHANGED notTraderVars

\* The settlement delay (line 536), then enter_position up to its POST.
TraderFlipSettle ==
    /\ t_pc = "flip_sleep"
    /\ t_now + SettlementDelay <= MaxTime
    /\ FlipEnter(t_now + SettlementDelay)
    /\ UNCHANGED notTraderVars

\* An enter_position whose submitter sends the order again when the answer
\* carries no `filled` status.
TraderFlipEntryResponseRetries(resp) ==
    /\ t_pc = "flip_entry_wait"
    /\ resp \in TraderResponses(t_inflight)
    /\ LET result == PlaceOrderRawResult(resp)
           again == ~HasFilled(result) /\ t_call.posts < 2
       IN  /\ t_result' = result
           /\ EnterApply(result, t_flip.new_direction)
           /\ t_success' = HasFilled(result)
           /\ t_call' = IF again THEN Posted(t_call)
                         ELSE Returned(t_call, result, HasFilled(result))
           /\ t_flip' = IF again THEN t_flip
                         ELSE [t_flip EXCEPT !.entry_answered = TRUE,
                                             !.entry_filled = HasFilled(result),
                                             !.returned = TRUE]
           /\ t_pc' = IF again THEN "flip_entry_wait" ELSE "flip_return"
           /\ t_inflight' = IF again THEN t_inflight ELSE NoneOrder
    /\ UNCHANGED <<current_signal, last_signal_time, t_now, t_current_time,
                   t_tick, t_price>>
    /\ UNCHANGED notTraderVars

\* The entry order of a flip is answered (lines 395-421, then 542-548).
TraderFlipEntryResponse(resp) ==
    /\ t_pc = "flip_entry_wait"
    /\ resp \in TraderResponses(t_inflight)
    /\ LET result == PlaceOrderRawResult(resp)
       IN  /\ t_result' = result
           /\ EnterApply(result, t_flip.new_direction)
           /\ t_success' = HasFilled(result)
           /\ t_call' = Returned(t_call, result, HasFilled(result))
           /\ t_flip' = [t_flip EXCEPT !.entry_answered = TRUE,
                                       !.entry_filled = HasFilled(result),
                                       !.returned = TRUE]
    /\ t_pc' = "flip_return"
    /\ t_inflight' = NoneOrder
    /\ UNCHANGED <<current_signal, last_signal_time, t_now, t_current_time,
                   t_tick, t_price>>
    /\ UNCHANGED notTraderVars

\* A run that records the signal only when flip_position succeeded.
TraderFlipReturnRecordsOnSuccess ==
    /\ t_pc = "flip_return"
    /\ t_now + LoopSleep <= MaxTime
    /\ current_signal' = IF t_success THEN t_tick.signal ELSE current_signal
    /\ last_signal_time' = IF t_success THEN t_current_time
                                        ELSE last_signal_time
    /\ t_now' = t_now + LoopSleep
    /\ t_pc' = "loop"
    /\ t_flip' = NoFlip
    /\ t_call' = NoCall
    /\ t_current_time' = 0
    /\ t_price' = NoneNum
    /\ t_success' = FALSE
    /\ t_result' = NoneResult
    /\ UNCHANGED <<traderPos, t_inflight, t_tick>>
    /\ UNCHANGED notTraderVars

\* flip_position has returned: lines 613-619, then the sleep of line 625.
\* The locals of flip_position and current_time are dropped.
TraderFlipReturn ==
    /\ t_pc = "flip_return"
    /\ t_now + LoopSleep <= MaxTime
    /\ current_signal' = t_tick.signal
    /\ last_signal_time' = t_current_time
    /\ t_now' = t_now + LoopSleep
    /\ t_pc' = "loop"
    /\ t_flip' = NoFlip
    /\ t_call' = NoCall
    /\ t_current_time' = 0
    /\ t_price' = NoneNum
    /\ t_success' = FALSE
    /\ t_result' = NoneResult
    /\ UNCHANGED <<traderPos, t_inflight, t_tick>>
    /\ UNCHANGED notTraderVars

\* A tick of run in which one of the detection steps fails.  The tick goes
\* on with the signal the failure leaves: none, or a direction, which is
\* handled as any detected direction is.
TraderFailedTick(stage) ==
    /\ stage \in Failures
    /\ LET sig == SignalOnFailure(stage)
       IN  IF sig = None
           THEN TraderNoChange("FAIL")
           ELSE \/ TraderNoChange(sig)
                \/ TraderSameDirection(sig)
                \/ \E price \in Prices \cup {NoneNum},
                      price2 \in Prices \cup {NoneNum} :
                       TraderFlipStart(sig, price, price2)

\* ---- shutdown, lines 627-646 ---------------------------------------------

TraderRunning == {"loop", "flip_close_wait", "flip_sleep", "flip_entry_wait",
                  "flip_return"}

\* The operator interrupts run.  The interrupt reaches the coroutine either
\* as KeyboardInterrupt (handled: the except clause of line 627 runs and
\* closes an open position) or as the cancellation of the task, which
\* neither except clause of run catches (not handled: run ends at once).
\* A POST in progress is abandoned and the frames of the loop are unwound.
TraderInterrupt(handled, price) ==
    /\ t_pc \in TraderRunning
    /\ IF handled /\ position_open
       THEN IF price # NoneNum
            THEN /\ CloseSubmit(price)
                 /\ t_pc' = "shutdown_close_wait"
                 /\ t_call' = Posted(Call("close_position", traderPos))
            ELSE /\ t_pc' = "done"
                 /\ t_inflight' = NoneOrder
                 /\ t_call' = Returned(Call("close_position", traderPos), NoneResult, FALSE)
                 /\ UNCHANGED traderPos
       ELSE /\ t_pc' = "done"
            /\ t_inflight' = NoneOrder
            /\ t_call' = NoCall
            /\ UNCHANGED traderPos
    /\ t_flip' = NoFlip
    /\ t_current_time' = 0
    /\ t_tick' = NoTick
    /\ t_price' = NoneNum
    /\ t_success' = FALSE
    /\ t_result' = NoneResult
    /\ UNCHANGED <<current_signal, last_signal_time, t_now>>
    /\ UNCHANGED notTraderVars

\* The close order of the shutdown path is answered; run returns.
TraderShutdownCloseResponse(resp) ==
    /\ t_pc = "shutdown_close_wait"
    /\ resp \in TraderResponses(t_inflight)
    /\ t_result' = PlaceOrderRawResult(resp)
    /\ CloseApply(PlaceOrderRawResult(resp))
    /\ t_call' = Returned(t_call, PlaceOrderRawResult(resp),
                          HasFilled(PlaceOrderRawResult(resp)))
    /\ t_pc' = "done"
    /\ t_inflight' = NoneOrder
    /\ UNCHANGED <<current_signal, last_signal_time, t_now, t_current_time,
                   t_tick, t_price, t_success, t_flip>>
    /\ UNCHANGED notTraderVars

PricesOrNone == Prices \cup {NoneNum}

TraderNext ==
    \/ TraderWait
    \/ \E sig \in {None} \cup Signals : TraderNoChange(sig)
    \/ \E stage \in Failures : TraderFailedTick(stage)
    \/ \E sig \in Signals : TraderSameDirection(sig)
    \/ \E sig \in Signals, price \in PricesOrNone, price2 \in PricesOrNone :
           TraderFlipStart(sig, price, price2)
    \/ \E resp \in TraderResponses(t_inflight) : TraderFlipCloseResponse(resp)
    \/ TraderFlipSettle
    \/ \E resp \in TraderResponses(t_inflight) : TraderFlipEntryResponse(resp)
    \/ TraderFlipReturn
    \/ \E handled \in BOOLEAN, price \in PricesOrNone : TraderInterrupt(handled, price)
    \/ \E resp \in TraderResponses(t_inflight) : TraderShutdownCloseResponse(resp)

\* ========================================================================
\* OrderBookHunter
\* ========================================================================

\* self.imbalance_threshold = 3.0, as a ratio times 100
imbalance_threshold == 300
\* the literal 0.5 of the short test, as a ratio times 100
short_threshold == 50
\* self.base_position_usd = 300.0
base_position_usd == 300
\* self.max_position_usd = 500.0
max_position_usd == 500
\* self.time_stop_seconds = 30
time_stop_seconds == 30
\* await asyncio.sleep(1.0) of run, in milliseconds
HunterLoopSleep == 1000
\* await asyncio.sleep(2) of run after an error, in milliseconds
HunterErrorSleep == 2000

\* Order-book snapshots analyze_orderbook can compute: the imbalance ratio
\* times 100, whether get_recent_volume exceeds volume_spike_threshold, and
\* the best bid in cents (the best ask is one cent above).
Snapshots == [imbalance_ratio : {40, 100, 400, 99900}, volume_spike : BOOLEAN,
              best_bid : {10000}]

NoAction == [kind |-> "None", orders |-> <<>>, nonce |-> NoneNum, grouping |-> None]
NoLocal == [direction |-> None, entry_price |-> NoneNum, position_usd |-> NoneNum]
NoEntry == [called |-> FALSE, answered |-> FALSE, result |-> NoneResult,
            pre |-> <<>>, local |-> NoLocal, at |-> NoneNum, posts |-> 0]
NoClose == [called |-> FALSE, pre_open |-> FALSE, cancel_sent |-> FALSE,
            close_sent |-> FALSE, close_answered |-> FALSE,
            close_result |-> NoneResult, returned |-> FALSE, posts |-> 0]

Abs(x) == IF x < 0 THEN 0 - x ELSE x

\* enter_position, lines 411-415: position_usd in cents.
\*   min(imbalance_strength / 2, 1.67) * 300, capped at max_position_usd
PositionUsd(snapshot) ==
    LET imbalance_strength == Abs(snapshot.imbalance_ratio - 100)
        scaled == Min((base_position_usd * imbalance_strength) \div 2,
                      base_position_usd * 167)
    IN  Min(scaled, max_position_usd * 100)

HunterOrder(b, p, s, r, t, trig) ==
    [b |-> b, p |-> p, s |-> s, r |-> r, t |-> t, triggerPx |-> trig]

\* An enter_position that computes the take-profit and stop-loss prices of
\* a short entry with the signs of a long one.
GroupedOrdersLongOnly(direction, snapshot) ==
    LET is_buy == (direction = "long")
        entry_price == IF is_buy THEN snapshot.best_bid + 1 ELSE snapshot.best_bid
        tp_price == RoundDiv(entry_price * 10025, 10000)
        sl_price == RoundDiv(entry_price * 9990, 10000)
        size == RoundDiv(PositionUsd(snapshot) * 100, entry_price)
    IN  << HunterOrder(is_buy, IF is_buy THEN entry_price + 10 ELSE entry_price - 10,
                       size, FALSE, "Ioc", NoneNum),
           HunterOrder(~is_buy, IF is_buy THEN sl_price + 100 ELSE sl_price - 100,
                       size, TRUE, "sl", sl_price),
           HunterOrder(~is_buy, tp_price, size, TRUE, "tp", tp_price) >>

\* enter_position, lines 417-483: the three orders of the grouped action.
\*   tp_percentage = 0.25, sl_percentage = 0.10
GroupedOrders(direction, snapshot) ==
    LET is_buy == (direction = "long")
        entry_price == IF is_buy THEN snapshot.best_bid + 1 ELSE snapshot.best_bid
        tp_price == IF is_buy THEN RoundDiv(entry_price * 10025, 10000)
                              ELSE RoundDiv(entry_price * 9975, 10000)
        sl_price == IF is_buy THEN RoundDiv(entry_price * 9990, 10000)
                              ELSE RoundDiv(entry_price * 10010, 10000)
        size == RoundDiv(PositionUsd(snapshot) * 100, entry_price)
    IN  << HunterOrder(is_buy, IF is_buy THEN entry_price + 10 ELSE entry_price - 10,
                       size, FALSE, "Ioc", NoneNum),
           HunterOrder(~is_buy, IF is_buy THEN sl_price + 100 ELSE sl_price - 100,
                       size, TRUE, "sl", sl_price),
           HunterOrder(~is_buy, tp_price, size, TRUE, "tp", tp_price) >>

\* What the POST of a grouped action can come back with.  On "ok" the
\* statuses list is empty or has one entry per order: the entry leg filled
\* (in whole or in part), resting or in error, each trigger leg accepted
\* (resting) or in error.
GroupedResponses(orders) ==
    {[kind |-> k, statuses |-> <<>>] : k \in {"exception", "http_error", "error_body"}}
    \cup {[kind |-> "ok", statuses |-> <<>>]}
    \cup {[kind |-> "ok", statuses |-> <<e, sl, tp>>] :
              e \in LegStatuses(orders[1]),
              sl \in {Resting, StatusError}, tp \in {Resting, StatusError}}

HunterInit ==
    /\ h_position_open = FALSE
    /\ h_entry_time = NoneNum
    /\ h_entry_price = NoneNum
    /\ h_entry_order_data = NoneData
    /\ h_position_direction = None
    /\ h_position_size = NoneNum
    /\ h_pc = "loop"
    /\ h_clock = 0
    /\ h_inflight = NoAction
    /\ h_local = NoLocal
    /\ h_last_nonce = NoneNum
    /\ h_entry = NoEntry
    /\ h_close = NoClose

\* ---- run and check_entry_conditions, lines 628-654 and 374-406 ----------

\* l2_snapshot raises, or the book has no bids or no asks: nothing is
\* analysed.  After an exception run sleeps 2 s, otherwise 1 s.
HunterNoBook(raised) ==
    /\ h_pc = "loop"
    /\ LET pause == IF raised THEN HunterErrorSleep ELSE HunterLoopSleep
       IN  /\ h_clock + pause <= MaxClock
           /\ h_clock' = h_clock + pause
    /\ h_entry' = NoEntry
    /\ h_close' = NoClose
    /\ UNCHANGED <<hunterPos, h_pc, h_inflight, h_local, h_last_nonce>>
    /\ UNCHANGED notHunterVars

LongSignal(snapshot) ==
    snapshot.imbalance_ratio > imbalance_threshold /\ snapshot.volume_spike

ShortSignal(snapshot) ==
    snapshot.imbalance_ratio < short_threshold /\ snapshot.volume_spike

\* A snapshot with no position open and no entry signal.
HunterNoSignal(snapshot) ==
    /\ h_pc = "loop"
    /\ ~h_position_open
    /\ ~LongSignal(snapshot) /\ ~ShortSignal(snapshot)
    /\ h_clock + HunterLoopSleep <= MaxClock
    /\ h_clock' = h_clock + HunterLoopSleep
    /\ h_entry' = NoEntry
    /\ h_close' = NoClose
    /\ UNCHANGED <<hunterPos, h_pc, h_inflight, h_local, h_last_nonce>>
    /\ UNCHANGED notHunterVars

\* A check_entry_conditions without the test of line 376: a signal is
\* evaluated and entered whether or not a position is recorded open.
HunterEnterStartWithoutTest(snapshot) ==
    /\ h_pc = "loop"
    /\ LongSignal(snapshot) \/ ShortSignal(snapshot)
    /\ LET direction == IF LongSignal(snapshot) THEN "long" ELSE "short"
           entry_price == IF direction = "long" THEN snapshot.best_bid + 1
                                                ELSE snapshot.best_bid
       IN  /\ h_local' = [direction |-> direction, entry_price |-> entry_price,
                          position_usd |-> PositionUsd(snapshot)]
           /\ h_inflight' = [kind |-> "grouped",
                             orders |-> GroupedOrders(direction, snapshot),
                             nonce |-> h_clock, grouping |-> "normalTpsl"]
           /\ h_entry' = [NoEntry EXCEPT
                              !.called = TRUE, !.pre = hunterPos, !.posts = 1,
                              !.local = [direction |-> direction,
                                         entry_price |-> entry_price,
                                         position_usd |-> PositionUsd(snapshot)]]
    /\ h_last_nonce' = h_clock
    /\ h_pc' = "entry_wait"
    /\ h_close' = NoClose
    /\ UNCHANGED <<hunterPos, h_clock>>
    /\ UNCHANGED notHunterVars

\* A snapshot with no position open and an entry signal: enter_position
\* builds the grouped action and place_grouped_order POSTs it (lines 408-485,
\* 198-221).
HunterEnterStart(snapshot) ==
    /\ h_pc = "loop"
    /\ ~h_position_open
    /\ LongSignal(snapshot) \/ ShortSignal(snapshot)
    /\ LET direction == IF LongSignal(snapshot) THEN "long" ELSE "short"
           entry_price == IF direction = "long" THEN snapshot.best_bid + 1
                                                ELSE snapshot.best_bid
       IN  /\ h_local' = [direction |-> direction, entry_price |-> entry_price,
                          position_usd |-> PositionUsd(snapshot)]
           /\ h_inflight' = [kind |-> "grouped",
                             orders |-> GroupedOrders(direction, snapshot),
                             nonce |-> h_clock, grouping |-> "normalTpsl"]
           /\ h_entry' = [NoEntry EXCEPT
                              !.called = TRUE, !.pre = hunterPos, !.posts = 1,
                              !.local = [direction |-> direction,
                                         entry_price |-> entry_price,
                                         position_usd |-> PositionUsd(snapshot)]]
    /\ h_last_nonce' = h_clock
    /\ h_pc' = "entry_wait"
    /\ h_close' = NoClose
    /\ UNCHANGED <<hunterPos, h_clock>>
    /\ UNCHANGED notHunterVars

\* The position fields enter_position leaves (lines 487-512) when it found
\* the fields `pre`, computed the locals `local`, got `resp` from
\* place_grouped_order and read the clock value `now`; in the order of
\* hunterPos.
EnterPositionFields(pre, local, resp, now) ==
    IF resp.kind = "ok"
       /\ ~(Len(resp.statuses) > 0 /\ resp.statuses[1].type = "error")
    THEN LET main_filled == Len(resp.statuses) >= 1
                            /\ resp.statuses[1].type = "filled"
         IN  << TRUE,
                now,
                local.entry_price,
                IF main_filled THEN resp.statuses[1] ELSE pre[4],
                IF main_filled THEN local.direction ELSE pre[5],
                IF main_filled THEN resp.statuses[1].totalSz ELSE pre[6] >>
    ELSE pre

\* enter_position once place_grouped_order has returned.
HunterEnterApply(resp, now) ==
    LET fields == EnterPositionFields(hunterPos, h_local, resp, now)
    IN  /\ h_position_open' = fields[1]
        /\ h_entry_time' = fields[2]
        /\ h_entry_price' = fields[3]
        /\ h_entry_order_data' = fields[4]
        /\ h_position_direction' = fields[5]
        /\ h_position_size' = fields[6]

\* The grouped action is answered; the iteration ends with run's sleep.
\* An exception of requests.post is caught by enter_position (line 514).
HunterEnterResponse(resp) ==
    /\ h_pc = "entry_wait"
    /\ resp \in GroupedResponses(h_inflight.orders)
    /\ h_clock + HunterLoopSleep <= MaxClock
    /\ HunterEnterApply(resp, h_clock)
    /\ h_entry' = [h_entry EXCEPT !.answered = TRUE, !.result = resp,
                                  !.at = h_clock]
    /\ h_clock' = h_clock + HunterLoopSleep
    /\ h_pc' = "loop"
    /\ h_inflight' = NoAction
    /\ h_local' = NoLocal
    /\ UNCHANGED <<h_last_nonce, h_close>>
    /\ UNCHANGED notHunterVars

\* ---- manage_position and close_position, lines 517-614 -------------------

\* The finally clause of close_position (lines 607-614).
HunterReset ==
    /\ h_position_open' = FALSE
    /\ h_entry_time' = NoneNum
    /\ h_entry_price' = NoneNum
    /\ h_entry_order_data' = NoneData
    /\ h_position_direction' = None
    /\ h_position_size' = NoneNum

\* A snapshot with a position open and the time stop not reached.
HunterHold ==
    /\ h_pc = "loop"
    /\ h_position_open
    /\ ~(h_clock - h_entry_time > time_stop_seconds * 1000)
    /\ h_clock + HunterLoopSleep <= MaxClock
    /\ h_clock' = h_clock + HunterLoopSleep
    /\ h_entry' = NoEntry
    /\ h_close' = NoClose
    /\ UNCHANGED <<hunterPos, h_pc, h_inflight, h_local, h_last_nonce>>
    /\ UNCHANGED notHunterVars

\* A close_position whose early return (line 532) is outside the try
\* statement, so that the finally clause does not run for it.
HunterTimeStopReturnsEarly ==
    /\ h_pc = "loop"
    /\ h_position_open
    /\ h_clock - h_entry_time > time_stop_seconds * 1000
    /\ LET start == [NoClose EXCEPT !.called = TRUE, !.pre_open = h_position_open]
       IN
       IF ~TruthyData(h_entry_order_data)
       THEN /\ UNCHANGED hunterPos
            /\ h_clock + HunterLoopSleep <= MaxClock
            /\ h_clock' = h_clock + HunterLoopSleep
            /\ h_close' = [start EXCEPT !.returned = TRUE]
            /\ UNCHANGED <<h_pc, h_inflight, h_last_nonce>>
       ELSE /\ h_inflight' = [kind |-> "cancel", orders |-> <<>>, nonce |-> h_clock,
                              grouping |-> None]
            /\ h_last_nonce' = h_clock
            /\ h_close' = [start EXCEPT !.cancel_sent = TRUE]
            /\ h_pc' = "cancel_wait"
            /\ UNCHANGED <<hunterPos, h_clock>>
    /\ h_entry' = NoEntry
    /\ UNCHANGED h_local
    /\ UNCHANGED notHunterVars

\* A snapshot with a position open and the time stop reached: close_position
\* runs up to the POST of the cancel action (lines 529-566), or, without
\* entry_order_data, returns at once through the finally clause.
HunterTimeStop ==
    /\ h_pc = "loop"
    /\ h_position_open
    /\ h_clock - h_entry_time > time_stop_seconds * 1000
    /\ LET start == [NoClose EXCEPT !.called = TRUE, !.pre_open = h_position_open]
       IN
       IF ~TruthyData(h_entry_order_data)
       THEN /\ HunterReset
            /\ h_clock + HunterLoopSleep <= MaxClock
            /\ h_clock' = h_clock + HunterLoopSleep
            /\ h_close' = [start EXCEPT !.returned = TRUE]
            /\ UNCHANGED <<h_pc, h_inflight, h_last_nonce>>
       ELSE /\ h_inflight' = [kind |-> "cancel", orders |-> <<>>, nonce |-> h_clock,
                              grouping |-> None]
            /\ h_last_nonce' = h_clock
            /\ h_close' = [start EXCEPT !.cancel_sent = TRUE]
            /\ h_pc' = "cancel_wait"
            /\ UNCHANGED <<hunterPos, h_clock>>
    /\ h_entry' = NoEntry
    /\ UNCHANGED h_local
    /\ UNCHANGED notHunterVars

\* close_position, lines 574-595: the reduce-only close order.
HunterCloseOrder(current_price) ==
    LET original_size == h_entry_order_data.totalSz
        is_buy == (h_position_direction = "short")
        close_price == IF is_buy THEN current_price + 50 ELSE current_price - 50
    IN  HunterOrder(is_buy, close_price, original_size, TRUE, "Ioc", NoneNum)

\* The POST of the cancel action returns or raises (its response is not
\* looked at).  If it raised, or if get_current_price then finds no price,
\* close_position ends through the finally clause with no close order sent;
\* otherwise place_order_raw POSTs the close order (lines 568-597, 169-191).
HunterCancelDone(raised, price, d) ==
    /\ h_pc = "cancel_wait"
    /\ h_clock + d + HunterLoopSleep <= MaxClock
    /\ IF raised \/ price = NoneNum
       THEN /\ HunterReset
            /\ h_close' = [h_close EXCEPT !.returned = TRUE]
            /\ h_clock' = h_clock + d + HunterLoopSleep
            /\ h_pc' = "loop"
            /\ h_inflight' = NoAction
            /\ UNCHANGED h_last_nonce
       ELSE /\ h_inflight' = [kind |-> "close",
                              orders |-> <<HunterCloseOrder(price)>>,
                              nonce |-> h_clock + d, grouping |-> "na"]
            /\ h_last_nonce' = h_clock + d
            /\ h_close' = [h_close EXCEPT !.close_sent = TRUE, !.posts = @ + 1]
            /\ h_clock' = h_clock + d
            /\ h_pc' = "close_wait"
            /\ UNCHANGED hunterPos
    /\ UNCHANGED <<h_local, h_entry>>
    /\ UNCHANGED notHunterVars

\* What place_order_raw can come back with for the close order.
HunterCloseResponses(orders) ==
    {[kind |-> k, statuses |-> <<>>] : k \in {"exception", "http_error", "error_body"}}
    \cup {[kind |-> "ok", statuses |-> <<st>>] : st \in LegStatuses(orders[1])}

\* The close order is answered (lines 597-614): whatever the answer, the
\* finally clause resets the position fields.  Then run sleeps.
HunterCloseResponse(resp) ==
    /\ h_pc = "close_wait"
    /\ resp \in HunterCloseResponses(h_inflight.orders)
    /\ h_clock + HunterLoopSleep <= MaxClock
    /\ HunterReset
    /\ h_close' = [h_close EXCEPT !.close_answered = TRUE,
                                  !.close_result = resp,
                                  !.returned = TRUE]
    /\ h_clock' = h_clock + HunterLoopSleep
    /\ h_pc' = "loop"
    /\ h_inflight' = NoAction
    /\ UNCHANGED <<h_local, h_last_nonce, h_entry>>
    /\ UNCHANGED notHunterVars

\* The operator interrupts run (lines 647-649): the loop is left without a
\* close attempt.  An interrupt that arrives inside close_position unwinds
\* through its finally clause.
HunterInterrupt ==
    /\ h_pc \in {"loop", "entry_wait", "cancel_wait", "close_wait"}
    /\ IF h_pc \in {"cancel_wait", "close_wait"}
       THEN HunterReset
       ELSE UNCHANGED hunterPos
    /\ h_pc' = "done"
    /\ h_inflight' = NoAction
    /\ h_local' = NoLocal
    /\ UNCHANGED <<h_clock, h_last_nonce, h_entry, h_close>>
    /\ UNCHANGED notHunterVars

HunterNext ==
    \/ \E raised \in BOOLEAN : HunterNoBook(raised)
    \/ \E snapshot \in Snapshots : HunterNoSignal(snapshot)
    \/ \E snapshot \in Snapshots : HunterEnterStart(snapshot)
    \/ /\ h_pc = "entry_wait"
       /\ \E resp \in GroupedResponses(h_inflight.orders) :
              HunterEnterResponse(resp)
    \/ HunterHold
    \/ HunterTimeStop
    \* d: milliseconds by which the clock reading moves between the two
    \* nonces of close_position, none when both are read within the clock's
    \* resolution.
    \/ \E raised \in BOOLEAN, price \in PricesOrNone, d \in {0, 1} :
           HunterCancelDone(raised, price, d)
    \/ /\ h_pc = "close_wait"
       /\ \E resp \in HunterCloseResponses(h_inflight.orders) :
              HunterCloseResponse(resp)
    \/ HunterInterrupt

\* ========================================================================
\* UltimateScalpingBot
\* ========================================================================

\* self.position_size_usd = 300.0
position_size_usd == 300
\* self.entry_offset = 0.05, in cents
entry_offset == 5

\* What place_grouped_order returns: False, True ([kind |-> "True"]), or
\* the oid of a resting entry ([kind |-> "oid"], a positive integer, so
\* truthy).
RetFalse == [kind |-> "False"]
RetTruthy(ret) == ret.kind # "False"

NoPoll == [outcome |-> None, price |-> NoneNum]

\* calculate_position_size, lines 128-132
calculate_position_size(entry_price) ==
    Max(1, RoundDiv(position_size_usd * 100 * 100, entry_price))

\* place_grouped_order, lines 142-190: the three orders.
\*   tp_percentage = 0.31, sl_percentage = 0.125
ScalperOrders(entry_price) ==
    LET size == calculate_position_size(entry_price)
        tp_price == RoundDiv(entry_price * 10031, 10000)
        sl_price == RoundDiv(entry_price * 99875, 100000)
    IN  << HunterOrder(TRUE, entry_price, size, FALSE, "Gtc", NoneNum),
           HunterOrder(FALSE, sl_price - 100, size, TRUE, "sl", sl_price),
           HunterOrder(FALSE, tp_price, size, TRUE, "tp", tp_price) >>

\* place_grouped_order, lines 219-243: the return value for a response.
PlaceGroupedOrderReturn(resp) ==
    IF resp.kind = "ok"
    THEN IF Len(resp.statuses) > 0 /\ resp.statuses[1].type = "resting"
         THEN [kind |-> "oid"]
         ELSE [kind |-> "True"]
    ELSE RetFalse

ScalperInit ==
    /\ s_pc = "start"
    /\ s_entry_price = NoneNum
    /\ s_inflight = NoAction
    /\ s_order_id = RetFalse
    /\ s_response = NoneResult
    /\ s_posts = 0
    /\ s_poll = NoPoll

\* execute_scalping_strategy up to the POST of the grouped action
\* (lines 251-269, 142-217).  Without a price get_current_price raises and
\* the strategy ends.
ScalperStart(current_price) ==
    /\ s_pc = "start"
    /\ IF current_price = NoneNum
       THEN /\ s_pc' = "done"
            /\ UNCHANGED <<s_entry_price, s_inflight, s_posts>>
       ELSE /\ s_entry_price' = current_price - entry_offset
            /\ s_inflight' = [kind |-> "grouped",
                              orders |-> ScalperOrders(current_price - entry_offset),
                              nonce |-> NoneNum, grouping |-> "normalTpsl"]
            /\ s_posts' = s_posts + 1
            /\ s_pc' = "order_wait"
    /\ UNCHANGED <<s_order_id, s_response, s_poll>>
    /\ UNCHANGED notScalperVars

\* The grouped action is answered (lines 219-243, then 271-276): monitoring
\* starts when the returned value is truthy.
ScalperOrderResponse(resp) ==
    /\ s_pc = "order_wait"
    /\ resp \in GroupedResponses(s_inflight.orders)
    /\ s_response' = resp
    /\ s_order_id' = PlaceGroupedOrderReturn(resp)
    /\ s_pc' = IF RetTruthy(PlaceGroupedOrderReturn(resp)) THEN "monitoring"
                                                           ELSE "done"
    /\ s_inflight' = NoAction
    /\ UNCHANGED <<s_entry_price, s_posts, s_poll>>
    /\ UNCHANGED notScalperVars

\* A monitoring loop that an error of the price feed ends.
ScalperPollErrorBreaks(current_price) ==
    /\ s_pc = "monitoring"
    /\ IF current_price = NoneNum
       THEN /\ s_poll' = [outcome |-> "error", price |-> NoneNum]
            /\ s_pc' = "done"
       ELSE IF current_price <= s_entry_price
       THEN /\ s_poll' = [outcome |-> "hit", price |-> current_price]
            /\ s_pc' = "done"
       ELSE /\ s_poll' = [outcome |-> "above", price |-> current_price]
            /\ UNCHANGED s_pc
    /\ UNCHANGED <<s_entry_price, s_inflight, s_order_id, s_response, s_posts>>
    /\ UNCHANGED notScalperVars

\* One pass of the monitoring loop (lines 281-304): the price feed raises,
\* or reports a price; at or below entry_price the loop ends.
ScalperPoll(current_price) ==
    /\ s_pc = "monitoring"
    /\ IF current_price = NoneNum
       THEN /\ s_poll' = [outcome |-> "error", price |-> NoneNum]
            /\ UNCHANGED s_pc
       ELSE IF current_price <= s_entry_price
       THEN /\ s_poll' = [outcome |-> "hit", price |-> current_price]
            /\ s_pc' = "done"
       ELSE /\ s_poll' = [outcome |-> "above", price |-> current_price]
            /\ UNCHANGED s_pc
    /\ UNCHANGED <<s_entry_price, s_inflight, s_order_id, s_response, s_posts>>
    /\ UNCHANGED notScalperVars

\* The operator interrupts: the monitoring loop breaks (line 299); anywhere
\* else the interrupt ends the strategy.
ScalperInterrupt ==
    /\ s_pc \in {"start", "order_wait", "monitoring"}
    /\ s_pc' = "done"
    /\ s_inflight' = NoAction
    /\ s_poll' = IF s_pc = "monitoring"
                 THEN [outcome |-> "interrupt", price |-> NoneNum]
                 ELSE s_poll
    /\ UNCHANGED <<s_entry_price, s_order_id, s_response, s_posts>>
    /\ UNCHANGED notScalperVars

ScalperPollPrices == {10001, 20001, 10006, 20006, 30000, NoneNum}

ScalperNext ==
    \* prices the feed can report, in cents, or none
    \/ \E price \in {10006, 20006, NoneNum} : ScalperStart(price)
    \/ /\ s_pc = "order_wait"
       /\ \E resp \in GroupedResponses(s_inflight.orders) : ScalperOrderResponse(resp)
    \/ \E price \in ScalperPollPrices : ScalperPoll(price)
    \/ ScalperInterrupt

\* ========================================================================
\* The dashboard: web_server.py and start_web_interface.py
\* ========================================================================

MaxTicks == 3
MaxWorkers == 2

\* The class ExperimentalColorTrader defines these methods and no other.
TraderMethods ==
    {"__init__", "load_credentials", "round_float", "get_current_price",
     "calibrate_screen_region", "capture_screen_region",
     "get_dominant_color", "color_distance", "detect_color_signal",
     "get_spinner", "hash_action", "sign_inner", "sign_action",
     "place_order_raw", "enter_position", "close_position", "flip_position",
     "run"}

\* A capture of the watched region that raises.
NoScreen == <<>>

\* get_dominant_color: the clustering gives the colour of a uniform numpy
\* image; any other argument has no reshape, the AttributeError is caught
\* and the neutral colour is returned.
get_dominant_color(image) ==
    IF image.type = "ndarray" THEN image.color ELSE NeutralColor

StatusFields == {"bot_running", "position_open", "position_direction",
                 "detected_color", "signal"}

\* current_status as the module creates it (lines 34-45)
StatusInit == [bot_running |-> FALSE, position_open |-> FALSE,
               position_direction |-> None, detected_color |-> <<0, 0, 0>>,
               signal |-> None]

Written(who, n) == [by |-> who, tick |-> n]

NoWebTick == [done |-> FALSE, signal |-> None, pre_open |-> FALSE,
              pre_direction |-> None, pre_len |-> 0]


TradeRecord(action, direction, color) ==
    [action |-> action, direction |-> direction, color |-> color]

\* run_in_executor(None, fn): fn is called in a pool thread and its return
\* value handed back.  Calling an `async def` creates a coroutine object and
\* runs none of its body; nothing awaits the object.
\* The methods of ExperimentalColorTrader declared `async def` are
\* place_order_raw, enter_position, close_position, flip_position and run.
RunInExecutorRunsBody(fn) ==
    fn \notin {"place_order_raw", "enter_position", "close_position",
               "flip_position", "run"}

WebInit ==
    /\ w_bot_running = FALSE
    /\ w_bot = [exists |-> FALSE, position_open |-> FALSE, position_direction |-> None]
    /\ w_status = StatusInit
    /\ w_trade_history = <<>>
    /\ w_pc = "off"
    /\ w_live = FALSE
    /\ w_workers = 0
    /\ w_tickno = 0
    /\ w_tick = NoWebTick
    /\ w_posts = 0
    /\ w_written = [f \in StatusFields |-> Written("module", 0)]
    /\ w_reply = None
    /\ w_seen = [taken |-> FALSE, status |-> StatusInit,
                 written |-> [f \in StatusFields |-> Written("module", 0)],
                 trades |-> 0]

\* start_web_interface.main (lines 40-80): the environment either sets
\* LIVE_TRADING=true or does not; main prints its notes and serves the app.
\* Neither file reads the variable.
WebLaunch(live) ==
    /\ w_pc = "off"
    /\ w_pc' = "serving"
    /\ w_live' = live
    /\ UNCHANGED <<w_bot_running, w_bot, w_status, w_trade_history, w_workers,
                   w_tickno, w_tick, w_posts, w_written, w_reply, w_seen>>
    /\ UNCHANGED notWebVars

\* POST /api/start-bot while bot_running: lines 441-442.
StartBotRejected ==
    /\ w_pc = "serving"
    /\ w_bot_running
    /\ w_reply' = "400"
    /\ UNCHANGED <<w_bot_running, w_bot, w_status, w_trade_history, w_pc,
                   w_live, w_workers, w_tickno, w_tick, w_posts, w_written,
                   w_seen>>
    /\ UNCHANGED notWebVars

\* POST /api/start-bot, lines 444-474.  constructed is false when
\* ExperimentalColorTrader() raises (no private key): the answer is 500 and
\* nothing has been assigned.
StartBot(constructed) ==
    /\ w_pc = "serving"
    /\ ~w_bot_running
    /\ w_workers < MaxWorkers
    /\ IF constructed
       THEN /\ w_bot' = [exists |-> TRUE, position_open |-> FALSE, position_direction |-> None]
            /\ w_bot_running' = TRUE
            /\ w_workers' = w_workers + 1
            /\ w_status' = [w_status EXCEPT !.bot_running = TRUE]
            /\ w_written' = [w_written EXCEPT
                                 !["bot_running"] = Written("start_bot", w_tickno)]
            /\ w_tick' = NoWebTick
            /\ w_reply' = "started"
       ELSE /\ w_reply' = "500"
            /\ UNCHANGED <<w_bot, w_bot_running, w_workers, w_status,
                           w_written, w_tick>>
    /\ UNCHANGED <<w_trade_history, w_pc, w_live, w_tickno, w_posts, w_seen>>
    /\ UNCHANGED notWebVars

\* POST /api/stop-bot, lines 476-494.
StopBot ==
    /\ w_pc = "serving"
    /\ w_bot_running' = FALSE
    /\ w_posts' = IF /\ w_bot.exists /\ w_bot.position_open
                     /\ RunInExecutorRunsBody("close_position")
                  THEN w_posts + 1
                  ELSE w_posts
    /\ w_status' = [w_status EXCEPT !.bot_running = FALSE,
                                    !.position_open = FALSE]
    /\ w_written' = [w_written EXCEPT
                         !["bot_running"] = Written("stop_bot", w_tickno),
                         !["position_open"] = Written("stop_bot", w_tickno)]
    /\ w_reply' = "stopped"
    /\ UNCHANGED <<w_bot, w_trade_history, w_pc, w_live, w_workers, w_tickno,
                   w_tick, w_seen>>
    /\ UNCHANGED notWebVars

\* Lines 533-565 of run_bot_with_updates, for a bot that has the method
\* get_signal_from_color returning signal.
WorkerTradeLogic(signal, dominant_color, n) ==
    /\ w_status' = [w_status EXCEPT !.detected_color = dominant_color,
                                    !.signal = signal,
                                    !.position_open = w_bot.position_open,
                                    !.position_direction = w_bot.position_direction]
    /\ w_written' = [f \in StatusFields |->
                        IF f = "bot_running" THEN w_written[f]
                        ELSE Written("worker", n)]
    /\ IF signal # None /\ signal # w_bot.position_direction
       THEN /\ w_trade_history' =
                   Append(w_trade_history,
                          TradeRecord(IF w_bot.position_open THEN "FLIP" ELSE "OPEN",
                                      signal, dominant_color))
            /\ w_bot' = [w_bot EXCEPT !.position_direction = signal,
                                      !.position_open = TRUE]
       ELSE UNCHANGED <<w_trade_history, w_bot>>

\* An iteration of run_bot_with_updates that makes the trade of its signal
\* through the exchange.
WorkerTickTrades(screen) ==
    /\ w_pc = "serving"
    /\ w_workers > 0
    /\ w_bot_running /\ w_bot.exists
    /\ w_tickno < MaxTicks
    /\ w_tickno' = w_tickno + 1
    /\ LET signal == IF screen = NoScreen THEN None ELSE detect_color_signal(screen)
       IN  /\ w_tick' = [done |-> TRUE, signal |-> signal,
                         pre_open |-> w_bot.position_open,
                         pre_direction |-> w_bot.position_direction,
                         pre_len |-> Len(w_trade_history)]
           /\ WorkerTradeLogic(signal, IF screen = NoScreen THEN NeutralColor ELSE screen,
                               w_tickno + 1)
           /\ w_posts' = IF signal # None /\ signal # w_bot.position_direction
                         THEN w_posts + 1 ELSE w_posts
    /\ UNCHANGED <<w_bot_running, w_pc, w_live, w_workers, w_reply, w_seen>>
    /\ UNCHANGED notWebVars

\* An iteration of run_bot_with_updates (lines 521-578) with the screen
\* showing `screen`.  pyautogui.screenshot returns a PIL image or raises;
\* get_dominant_color is given the PIL image; bot_instance has no method
\* get_signal_from_color, so line 532 raises AttributeError, the except
\* clause of line 575 prints it and the thread sleeps.
WorkerTick(screen) ==
    /\ w_pc = "serving"
    /\ w_workers > 0
    /\ w_bot_running /\ w_bot.exists
    /\ w_tickno < MaxTicks
    /\ w_tickno' = w_tickno + 1
    /\ w_tick' = [done |-> TRUE,
                  signal |-> IF screen = NoScreen THEN None
                             ELSE detect_color_signal(screen),
                  pre_open |-> w_bot.position_open,
                  pre_direction |-> w_bot.position_direction,
                  pre_len |-> Len(w_trade_history)]
    /\ IF screen = NoScreen
       THEN UNCHANGED <<w_status, w_written, w_trade_history, w_bot>>
       ELSE LET dominant_color ==
                    get_dominant_color([type |-> "PIL", color |-> screen])
            IN  IF "get_signal_from_color" \in TraderMethods
                THEN \E signal \in {None} \cup Signals :
                         WorkerTradeLogic(signal, dominant_color, w_tickno + 1)
                ELSE /\ w_status' = [w_status EXCEPT
                                         !.detected_color = dominant_color]
                     /\ w_written' = [w_written EXCEPT
                                          !["detected_color"] =
                                              Written("worker", w_tickno + 1)]
                     /\ UNCHANGED <<w_trade_history, w_bot>>
    /\ UNCHANGED <<w_bot_running, w_pc, w_live, w_workers, w_posts, w_reply,
                   w_seen>>
    /\ UNCHANGED notWebVars

\* A run_bot_with_updates whose loop tests bot_instance alone.
WorkerExitWithoutBotOnly ==
    /\ w_workers > 0
    /\ ~w_bot.exists
    /\ w_workers' = w_workers - 1
    /\ UNCHANGED <<w_bot_running, w_bot, w_status, w_trade_history, w_pc,
                   w_live, w_tickno, w_tick, w_posts, w_written, w_reply,
                   w_seen>>
    /\ UNCHANGED notWebVars

\* A thread of run_bot_with_updates finds bot_running false at line 521 and
\* ends.
WorkerExit ==
    /\ w_workers > 0
    /\ ~w_bot_running
    /\ w_workers' = w_workers - 1
    /\ UNCHANGED <<w_bot_running, w_bot, w_status, w_trade_history, w_pc,
                   w_live, w_tickno, w_tick, w_posts, w_written, w_reply,
                   w_seen>>
    /\ UNCHANGED notWebVars

\* A client opens /ws (lines 394-411): it is sent current_status and
\* trade_history as they are.
WebsocketConnect ==
    /\ w_pc = "serving"
    /\ w_seen' = [taken |-> TRUE, status |-> w_status, written |-> w_written,
                  trades |-> Len(w_trade_history)]
    /\ UNCHANGED <<w_bot_running, w_bot, w_status, w_trade_history, w_pc,
                   w_live, w_workers, w_tickno, w_tick, w_posts, w_written,
                   w_reply>>
    /\ UNCHANGED notWebVars

WebNext ==
    \/ \E live \in BOOLEAN : WebLaunch(live)
    \/ StartBotRejected
    \/ \E constructed \in BOOLEAN : StartBot(constructed)
    \/ StopBot
    \* what the watched region can show, or a capture that raises
    \/ \E screen \in {green_target, red_target, NeutralColor, NoScreen} :
           WorkerTick(screen)
    \/ WorkerExit
    \/ WebsocketConnect

\* ========================================================================
\* Functions that use no field: hash_action
\* ========================================================================

\* Byte strings are sequences of numbers in 0..255.
Concat(seqs) ==
    LET RECURSIVE Cat(_)
        Cat(k) == IF k = 0 THEN <<>> ELSE Cat(k - 1) \o seqs[k]
    IN  Cat(Len(seqs))

\* The values an action is made of, for msgpack.packb.
MStr(codes) == [t |-> "str", n |-> 0, b |-> FALSE, s |-> codes, m |-> <<>>]
MInt(k) == [t |-> "int", n |-> k, b |-> FALSE, s |-> <<>>, m |-> <<>>]
MBool(v) == [t |-> "bool", n |-> 0, b |-> v, s |-> <<>>, m |-> <<>>]

\* msgpack.packb of a string of at most 31 bytes (fixstr), of an integer in
\* 0..127 (positive fixint), of a boolean, and of a dict of at most 15 such
\* entries (fixmap), whose entries are packed in insertion order.
PackValue(v) ==
    IF v.t = "str" THEN <<160 + Len(v.s)>> \o v.s
    ELSE IF v.t = "int" THEN <<v.n>>
    ELSE IF v.b THEN <<195>> ELSE <<194>>

PackMap(pairs) ==
    <<128 + Len(pairs)>>
        \o Concat([k \in 1..Len(pairs) |->
                       PackValue(pairs[k][1]) \o PackValue(pairs[k][2])])

\* "type" and "order" in ASCII
StrType == <<116, 121, 112, 101>>
StrOrder == <<111, 114, 100, 101, 114>>

\* Actions to hash: dicts of the shape the bots sign, cut down to scalar
\* entries.  The keys "a", "b", "r" are <<97>>, <<98>>, <<114>>, and the
\* type "cancel" is <<99, 97, 110, 99, 101, 108>>.
HashActions ==
    {<< <<MStr(StrType), MStr(ty)>>, <<MStr(<<97>>), MInt(5)>>,
        <<MStr(<<98>>), MBool(b)>>, <<MStr(<<114>>), MBool(r)>> >> :
         ty \in {StrOrder, <<99, 97, 110, 99, 101, 108>>},
         b \in BOOLEAN, r \in BOOLEAN}
    \cup {<< <<MStr(StrType), MStr(StrOrder)>> >>, << >>}

\* int.to_bytes(length, "big") of a number that fits.
ToBytesBig(n, length) ==
    LET RECURSIVE B(_, _)
        B(m, k) == IF k = 0 THEN <<>> ELSE Append(B(m \div 256, k - 1), m % 256)
    IN  B(n, length)

\* A vault address is written as hexadecimal digits (here their values),
\* with or without the prefix 0x.  str.removeprefix drops the prefix.
\* No vault is [given |-> FALSE].
VaultAddress(prefix, first) ==
    [given |-> TRUE, prefix |-> prefix,
     hex |-> [k \in 1..40 |-> (first + k) % 16]]
HashVaults ==
    {[given |-> FALSE, prefix |-> FALSE, hex |-> <<>>]}
    \cup {VaultAddress(pre, f) : pre \in BOOLEAN, f \in {0, 7}}

\* bytes.fromhex of an even number of digits
FromHex(hex) == [k \in 1..(Len(hex) \div 2) |-> 16 * hex[2 * k - 1] + hex[2 * k]]

\* keccak is taken as a function of the byte string that loses nothing.
Keccak(data) == [keccak |-> data]

\* ExperimentalColorTrader.hash_action, lines 271-281
hash_action(action, vault, nonce) ==
    LET data == PackMap(action) \o ToBytesBig(nonce, 8)
    IN  Keccak(IF ~vault.given THEN data \o <<0>>
               ELSE data \o <<1>> \o FromHex(vault.hex))

\* A hash_action that appends the nonce least significant byte first.
hunter_hash_action_little_endian(action, vault, nonce) ==
    LET RECURSIVE B(_, _)
        B(m, k) == IF k = 0 THEN <<>> ELSE <<m % 256>> \o B(m \div 256, k - 1)
        data == PackMap(action) \o B(nonce, 8)
    IN  Keccak(IF ~vault.given THEN data \o <<0>>
               ELSE data \o <<1>> \o FromHex(vault.hex))

\* OrderBookHunter.hash_action, lines 119-129
hunter_hash_action(action, vault, nonce) ==
    LET data == PackMap(action) \o ToBytesBig(nonce, 8)
    IN  Keccak(IF ~vault.given THEN data \o <<0>>
               ELSE data \o <<1>> \o FromHex(vault.hex))

\* UltimateScalpingBot.hash_action, lines 73-83
scalper_hash_action(action, vault, nonce) ==
    LET data == PackMap(action) \o ToBytesBig(nonce, 8)
    IN  Keccak(IF ~vault.given THEN data \o <<0>>
               ELSE data \o <<1>> \o FromHex(vault.hex))

\* ========================================================================
\* Functions that use no field: round_float
\* ========================================================================

\* A float x is written sign, whole . frac8, plus rest: frac8 counts 1e-8
\* and is the nearest point of the 8-decimal grid, rest counts 1e-13 and is
\* what x has beyond that point (negative when x's magnitude lies below it).
Float(neg, whole, frac8, rest) ==
    [neg |-> neg, whole |-> whole, frac8 |-> frac8, rest |-> rest]

FloatRests == {0, 5, 0 - 9, 10, 40000}

Floats ==
    {Float(neg, whole, frac8, rest) :
         neg \in BOOLEAN, whole \in {0, 1, 100},
         frac8 \in {0, 5, 12345678, 45000000, 45400000, 99999999},
         rest \in FloatRests} \ {x \in [neg : BOOLEAN, whole : {0}, frac8 : {0},
                                        rest : FloatRests] : x.rest < 0}

\* Strings are sequences of characters.
DigitChars == <<"0", "1", "2", "3", "4", "5", "6", "7", "8", "9">>

\* str(n) for n >= 0
IntStr(n) ==
    LET RECURSIVE D(_)
        D(m) == IF m < 10 THEN <<DigitChars[m + 1]>>
                ELSE Append(D(m \div 10), DigitChars[(m % 10) + 1])
    IN  D(n)

\* n written with exactly `width` digits
PadStr(n, width) ==
    LET RECURSIVE D(_, _)
        D(m, k) == IF k = 0 THEN <<>>
                   ELSE Append(D(m \div 10, k - 1), DigitChars[(m % 10) + 1])
    IN  D(n, width)

Pow10(k) == 10 ^ k

\* f"{x:.8f}": the sign stays on a result that is all zeros.
Format8(x) ==
    (IF x.neg THEN <<"-">> ELSE <<>>) \o IntStr(x.whole) \o <<".">>
        \o PadStr(x.frac8, 8)

\* abs(float(rounded) - x) in units of 1e-13
RoundingError(x) == IF x.rest < 0 THEN 0 - x.rest ELSE x.rest

\* 1e-12 in units of 1e-13
RoundingTolerance == 10

\* Decimal(rounded).normalize() printed with f"{...:f}": the zeros at the
\* end of the fraction go, and the point with them when nothing is left.
NormalizedStr(neg, whole, frac8) ==
    LET RECURSIVE Strip(_, _)
        Strip(f, width) ==
            IF width = 0 THEN <<>>
            ELSE IF f % 10 = 0 THEN Strip(f \div 10, width - 1)
            ELSE <<".">> \o PadStr(f, width)
    IN  (IF neg THEN <<"-">> ELSE <<>>) \o IntStr(whole) \o Strip(frac8, 8)

Raised == [raised |-> TRUE, str |-> <<>>]
Str(chars) == [raised |-> FALSE, str |-> chars]

\* A round_float that never raises.
hunter_round_float_unchecked(x) ==
    Str(NormalizedStr(x.neg, x.whole, x.frac8))

\* OrderBookHunter.round_float, lines 99-107
hunter_round_float(x) ==
    LET rounded == Format8(x)
    IN  IF RoundingError(x) >= RoundingTolerance THEN Raised
        ELSE IF rounded = <<"-", "0">> THEN Str(<<"0">>)
        ELSE Str(NormalizedStr(x.neg, x.whole, x.frac8))

\* UltimateScalpingBot.round_float, lines 63-71
scalper_round_float(x) ==
    LET rounded == Format8(x)
    IN  IF RoundingError(x) >= RoundingTolerance THEN Raised
        ELSE IF rounded = <<"-", "0">> THEN Str(<<"0">>)
        ELSE Str(NormalizedStr(x.neg, x.whole, x.frac8))

\* ExperimentalColorTrader.round_float, lines 104-108: x is rounded to
\* `decimals` places, a tie to the even digit; nothing is tested.
round_float(x, decimals) ==
    LET unit == Pow10(8 - decimals)
        kept == x.frac8 \div unit
        left == x.frac8 % unit
        half == unit \div 2
        up == \/ left > half
              \/ left = half /\ x.rest > 0
              \/ left = half /\ x.rest = 0
                     /\ (IF decimals = 0 THEN x.whole ELSE kept) % 2 = 1
        raw == x.whole * Pow10(decimals) + kept + (IF up THEN 1 ELSE 0)
        whole == raw \div Pow10(decimals)
        frac == raw % Pow10(decimals)
    IN  IF decimals = 0
        THEN Str((IF x.neg /\ raw # 0 THEN <<"-">> ELSE <<>>) \o IntStr(raw))
        ELSE Str((IF x.neg THEN <<"-">> ELSE <<>>) \o IntStr(whole) \o <<".">>
                     \o PadStr(frac, decimals))

\* float(s) of a decimal string: its digits as a point of the grid.
DigitOf(c) == CHOOSE d \in 0..9 : DigitChars[d + 1] = c

ParseFloat(str) ==
    LET neg == Len(str) > 0 /\ str[1] = "-"
        body == IF neg THEN SubSeq(str, 2, Len(str)) ELSE str
        dots == {k \in 1..Len(body) : body[k] = "."}
        dot == IF dots = {} THEN Len(body) + 1 ELSE CHOOSE k \in dots : TRUE
        RECURSIVE Num(_, _)
        Num(k, acc) == IF k >= dot THEN acc
                       ELSE Num(k + 1, 10 * acc + DigitOf(body[k]))
        RECURSIVE Frac(_, _)
        Frac(k, acc) ==
            IF k > 8 THEN acc
            ELSE Frac(k + 1, 10 * acc + (IF dot + k <= Len(body)
                                         THEN DigitOf(body[dot + k]) ELSE 0))
    IN  Float(neg, Num(1, 0), Frac(1, 0), 0)

\* The digits a string has after its point.
FractionDigits(str) ==
    LET dots == {k \in 1..Len(str) : str[k] = "."}
    IN  IF dots = {} THEN 0 ELSE Len(str) - (CHOOSE k \in dots : TRUE)

\* x and y are the same number (0.0 == -0.0).
SameNumber(x, y) ==
    /\ x.whole = y.whole /\ x.frac8 = y.frac8 /\ x.rest = y.rest
    /\ (x.neg = y.neg \/ (x.whole = 0 /\ x.frac8 = 0 /\ x.rest = 0))

\* round_float of the hunter and of the scalper is called with x.
CallRoundFloat(x) ==
    /\ p_fn = None
    /\ p_fn' = "round_float"
    /\ p_arg' = x
    /\ p_out' = [hunter |-> hunter_round_float(x),
                 scalper |-> scalper_round_float(x)]
    /\ UNCHANGED notPureVars

\* round_float of the color trader is called with x as the orders call it,
\* with two decimals.
CallTraderRoundFloat(x, decimals) ==
    /\ p_fn = None
    /\ p_fn' = "trader_round_float"
    /\ p_arg' = [x |-> x, decimals |-> decimals]
    /\ p_out' = round_float(x, decimals)
    /\ UNCHANGED notPureVars

\* ========================================================================
\* Functions that use no field: the outcome of place_order_raw
\* ========================================================================

\* What requests.post can do: raise (no connection, timeout), or return a
\* response with a status code and a body.
PostOutcomes ==
    {[kind |-> "exception", status |-> 0, statuses |-> <<>>]}
    \cup {[kind |-> "http_error", status |-> c, statuses |-> <<>>] :
              c \in {400, 429, 500}}
    \cup {[kind |-> "error_body", status |-> 200, statuses |-> <<>>]}
    \cup {[kind |-> "ok", status |-> 200, statuses |-> st] :
              st \in {<<>>, <<Resting>>, <<StatusError>>, <<Filled(40, 10100)>>}}

\* The class of an outcome: transport failure, HTTP rejection, or a body.
OutcomeClass(resp) ==
    IF resp.kind = "exception" THEN "transport"
    ELSE IF resp.status # 200 THEN "http" ELSE "body"

\* OrderBookHunter.place_order_raw, lines 187-196: an exception of
\* requests.post is not caught here; a status other than 200 gives a dict
\* with the status code and without the body.
hunter_place_order_raw(resp) ==
    IF resp.kind = "exception"
    THEN [kind |-> "raised", status |-> 0, statuses |-> <<>>]
    ELSE IF resp.status # 200
    THEN [kind |-> "error_dict", status |-> resp.status, statuses |-> <<>>]
    ELSE resp

\* place_order_raw of the color trader and of the hunter get the same
\* outcome of their POST.
CallPlaceOrderRaw(resp) ==
    /\ p_fn = None
    /\ p_fn' = "place_order_raw"
    /\ p_arg' = resp
    /\ p_out' = [trader |-> PlaceOrderRawResult(resp),
                 hunter |-> hunter_place_order_raw(resp)]
    /\ UNCHANGED notPureVars

PureInit ==
    /\ p_fn = None
    /\ p_arg = <<>>
    /\ p_out = <<>>

\* hash_action of each of the three classes is called with the same
\* arguments.
CallHashAction(action, vault, nonce) ==
    /\ p_fn = None
    /\ p_fn' = "hash_action"
    /\ p_arg' = [action |-> action, vault |-> vault, nonce |-> nonce]
    /\ p_out' = [trader |-> hash_action(action, vault, nonce),
                 hunter |-> hunter_hash_action(action, vault, nonce),
                 scalper |-> scalper_hash_action(action, vault, nonce)]
    /\ UNCHANGED notPureVars

PureNext ==
    \/ \E action \in HashActions, vault \in HashVaults,
          nonce \in {0, 1, 255, 256, 65536, 1762300000, 2147483647} :
           CallHashAction(action, vault, nonce)
    \/ \E x \in Floats : CallRoundFloat(x)
    \/ \E x \in Floats, decimals \in {0, 2} : CallTraderRoundFloat(x, decimals)
    \/ \E resp \in PostOutcomes : CallPlaceOrderRaw(resp)

\* ========================================================================
\* Specifications
\* ========================================================================

Init == TraderInit /\ HunterInit /\ ScalperInit /\ WebInit /\ PureInit

\* ExperimentalColorTrader
Next == TraderNext

Spec == Init /\ [][Next]_vars

\* ExperimentalColorTrader.run on a scripted screen: the detections are
\* Script in this order, the price feed answers, and the exchange fills
\* every order (in whole or in part).  How far the script has been played is
\* read off the record of the last detection.
Script == <<None, "LONG", "LONG", "SHORT">>

ScenarioIndex ==
    IF t_tick = NoTick THEN 1
    ELSE IF t_tick.signal = None THEN 2
    ELSE IF t_tick.signal = "LONG" /\ t_tick.branch = "flip" THEN 3
    ELSE IF t_tick.signal = "LONG" THEN 4
    ELSE 5

FilledResponses(order) ==
    {resp \in TraderResponses(order) : HasFilled(PlaceOrderRawResult(resp))}

\* The branch of line 608 for a signal in the direction already held is
\* left out: no detection of Script meets it.
ScenarioNext ==
    \/ TraderWait
    \/ /\ ScenarioIndex <= Len(Script)
       /\ TraderNoChange(Script[ScenarioIndex])
    \/ /\ ScenarioIndex <= Len(Script)
       /\ \E price \in Prices, price2 \in Prices :
              TraderFlipStart(Script[ScenarioIndex], price, price2)
    \/ /\ t_pc = "flip_close_wait"
       /\ \E resp \in FilledResponses(t_inflight) : TraderFlipCloseResponse(resp)
    \/ TraderFlipSettle
    \/ /\ t_pc = "flip_entry_wait"
       /\ \E resp \in FilledResponses(t_inflight) : TraderFlipEntryResponse(resp)
    \/ TraderFlipReturn

ScenarioSpec == Init /\ [][ScenarioNext]_vars

\* OrderBookHunter
HunterSpec == Init /\ [][HunterNext]_vars

\* UltimateScalpingBot
ScalperSpec == Init /\ [][ScalperNext]_vars

\* The dashboard
WebSpec == Init /\ [][WebNext]_vars

\* The dashboard with threads that are scheduled: a worker thread that is
\* at the test of its loop gets to make it.
WebFairSpec == WebSpec /\ WF_vars(WorkerExit)

\* Calls of the functions that use no field
PureSpec == Init /\ [][PureNext]_vars

\* ========================================================================
\* Properties of ExperimentalColorTrader
\* ========================================================================

\* A place_order_raw result that carries a `filled` status.
ContainsFilledStatus(r) ==
    /\ r.kind = "ok"
    /\ \E i \in 1..Len(r.statuses) : r.statuses[i].type = "filled"

C2_FlipEntryOnlyAfterFilledCloseAndDelay ==
    (t_flip.had_position /\ t_flip.entry_sent)
        => /\ t_flip.close_sent
           /\ t_flip.close_answered
           /\ ContainsFilledStatus(t_flip.close_result)
           /\ t_flip.entry_sent_at >= t_flip.close_done_at + SettlementDelay

C2_Witness ==
    /\ t_flip.had_position
    /\ t_flip.entry_sent
    /\ t_inflight.kind = "entry"
    /\ t_flip.pre[1] = "long"
    /\ t_flip.new_direction = "short"

\* C3: an iteration of run that detects the direction already held submits
\* nothing and leaves the position held; run starts a transition only for a
\* direction other than the one it holds, every submission belongs to a
\* transition or to the shutdown close, and no entry order is in flight for
\* the direction of an open position.
C3_NoEntryForDirectionHeld ==
    /\ (t_tick.signal \in {"LONG", "SHORT"} /\ t_tick.branch # "failed"
          /\ ((t_tick.signal = "LONG" /\ t_tick.held = "long")
              \/ (t_tick.signal = "SHORT" /\ t_tick.held = "short")))
           => /\ t_tick.branch # "flip"
              /\ ~t_flip.active
              /\ t_inflight = NoneOrder
              /\ t_pc = "loop" => (position_open /\ current_position = t_tick.held)
    /\ t_flip.active =>
           /\ t_flip.new_direction # t_flip.pre[1]
           /\ (t_flip.pre[2] => t_flip.new_direction # t_flip.pre[5])
    /\ t_inflight # NoneOrder => (t_flip.active \/ t_pc = "shutdown_close_wait")
    /\ t_inflight.kind = "entry" =>
           ~(position_open /\ current_position = t_flip.new_direction)

\* The last iteration detected LONG, a change of signal, while long.
C3_Witness ==
    /\ t_pc = "loop"
    /\ t_tick = [signal |-> "LONG", held |-> "long", branch |-> "same_direction"]
    /\ position_open
    /\ current_position = "long"
    /\ current_signal = "LONG"

C7_PositionOpenChangesOnlyOnFilled ==
    [][ /\ (~position_open /\ position_open')
            => /\ t_inflight.kind = "entry"
               /\ ContainsFilledStatus(t_result')
               /\ \E i \in 1..Len(t_result'.statuses) :
                      /\ t_result'.statuses[i].type = "filled"
                      /\ position_size' = t_result'.statuses[i].totalSz
               /\ position_direction' = t_flip.new_direction
               /\ current_position' = t_flip.new_direction
        /\ (position_open /\ ~position_open')
            => /\ t_inflight.kind = "close"
               /\ ContainsFilledStatus(t_result')
      ]_vars

C7_Witness ==
    /\ position_open
    /\ t_flip.entry_answered
    /\ t_flip.had_position
    /\ position_direction = "short"
    /\ position_size = entry_order_data.totalSz

\* ========================================================================
\* Properties of OrderBookHunter
\* ========================================================================

\* The entry leg of a grouped response is reported `filled`.
EntryLegFilled(r) ==
    /\ r.kind = "ok"
    /\ Len(r.statuses) >= 1
    /\ r.statuses[1].type = "filled"

\* C5: a close_position call that began with the position recorded open,
\* started a close attempt and returned without a close order answered
\* `filled` (no price, an exception, a non-200 status, a status other than
\* ok, or an order not filled) leaves position_open true.
C5_PositionClearedOnlyOnFilledClose ==
    (h_close.returned /\ h_close.pre_open /\ h_close.cancel_sent
         /\ ~ContainsFilledStatus(h_close.close_result))
        => h_position_open

\* C6: when enter_position has returned with position_open true, the entry
\* leg of the grouped response was `filled`.
C6_PositionOpenOnlyOnFilledEntry ==
    (h_entry.answered /\ h_position_open) => EntryLegFilled(h_entry.result)

\* The response with the same entry status and both protective orders
\* accepted.
PlainSuccess(r) == [r EXCEPT !.statuses = <<r.statuses[1], Resting, Resting>>]

\* C8: after a grouped response [entry filled, stop-loss error, take-profit
\* resting] the position is recorded open for the entry's filled size, and
\* what enter_position records is not what it records for the same call
\* answered with both protective orders accepted: the record tells that the
\* protective orders are not confirmed.
C8_PartialFillAmbiguityRecorded ==
    (h_entry.answered
         /\ EntryLegFilled(h_entry.result)
         /\ Len(h_entry.result.statuses) = 3
         /\ h_entry.result.statuses[2].type = "error"
         /\ h_entry.result.statuses[3].type = "resting")
        => /\ h_position_open
           /\ h_position_size = h_entry.result.statuses[1].totalSz
           /\ hunterPos # EnterPositionFields(h_entry.pre, h_entry.local,
                                              PlainSuccess(h_entry.result),
                                              h_entry.at)

\* C10: every submission carries a nonce greater than that of the
\* submission before it.
C10_NoncesStrictlyIncreasing ==
    [][ (h_inflight' # h_inflight /\ h_inflight'.kind # "None"
             /\ h_last_nonce # NoneNum)
            => h_inflight'.nonce > h_last_nonce ]_vars

\* ========================================================================
\* Properties of UltimateScalpingBot
\* ========================================================================

\* C9: place_grouped_order returns a truthy value only for a response whose
\* entry leg is resting or filled, and after a response whose entry leg is
\* in error execute_scalping_strategy has ended without a pass of the
\* monitoring loop.
C9_PlacedOnlyIfEntryLegAccepted ==
    s_response # NoneResult
        => /\ RetTruthy(s_order_id)
                  => /\ s_response.kind = "ok"
                     /\ Len(s_response.statuses) >= 1
                     /\ s_response.statuses[1].type \in {"resting", "filled"}
           /\ (s_response.kind = "ok" /\ Len(s_response.statuses) >= 1
                   /\ s_response.statuses[1].type = "error")
                  => (s_pc = "done" /\ s_poll = NoPoll)

\* ========================================================================
\* Properties of the submitters
\* ========================================================================

\* C11: a call of a submit operation makes at most one POST, and when the
\* call has returned, with whatever outcome, nothing of it is in flight:
\* place_order_raw of the color trader (counted per enter_position or
\* close_position call), place_grouped_order and place_order_raw of the
\* hunter, place_grouped_order of the scalper.
C11_AtMostOnePostPerSubmitCall ==
    /\ t_call.posts <= 1
    /\ t_call.returned => t_inflight = NoneOrder
    /\ h_entry.posts <= 1
    /\ h_entry.answered => h_inflight = NoAction
    /\ h_close.posts <= 1
    /\ h_close.returned => h_inflight = NoAction
    /\ s_posts <= 1
    /\ s_response # NoneResult => s_inflight = NoAction

\* enter_position has returned after one POST that was answered with a
\* status other than 200 or that raised.
C11_Witness ==
    /\ t_call.returned
    /\ t_call.name = "enter_position"
    /\ t_call.posts = 1
    /\ t_call.result = NoneResult
    /\ t_pc = "flip_return"

\* ========================================================================
\* Shutdown
\* ========================================================================

\* C12: when run of the color trader has ended with a position still
\* recorded as open, close_position was called once on the way out and has
\* returned (the position stayed open only because the close did not fill).
C12_CloseAttemptedBeforeRunReturns ==
    (t_pc = "done" /\ position_open)
        => (t_call.name = "close_position" /\ t_call.posts <= 1
                /\ t_call.returned)

\* C13: when run of the hunter has been ended by an interrupt with a filled
\* position still recorded as open, close_position was called before the
\* loop was left.
C13_HunterCloseAttemptedBeforeLoopExits ==
    (h_pc = "done" /\ h_position_open /\ TruthyData(h_entry_order_data))
        => h_close.called

\* ========================================================================
\* Detection failures
\* ========================================================================

\* C20: a tick of run in which the capture of the screen, the computation of
\* the dominant colour or the classification fails submits no order, leaves
\* the position fields, current_signal and last_signal_time as they were,
\* and leaves run in its loop.
C20_FailedDetectionIsNoSignal ==
    [][ \A stage \in Failures :
            TraderFailedTick(stage)
                => /\ UNCHANGED <<traderPos, current_signal, last_signal_time>>
                   /\ t_inflight' = NoneOrder
                   /\ t_call' = t_call
                   /\ t_pc' = "loop" ]_vars

\* A detection step has failed in a tick while a position was held.
C20_Witness ==
    /\ t_tick.branch = "failed"
    /\ t_pc = "loop"
    /\ position_open
    /\ t_tick.held = current_position

\* ========================================================================
\* One submission at a time
\* ========================================================================

C15_ScenarioTwoFlips ==
    /\ t_call.posts <= 1
    /\ ScenarioIndex \in {1, 2}
           => /\ t_pc = "loop" /\ t_inflight = NoneOrder /\ t_call = NoCall
              /\ ~position_open /\ current_position = None
    /\ ScenarioIndex = 3
           => /\ t_tick.held = None
              /\ t_pc # "loop"
                     => /\ t_flip.active /\ ~t_flip.had_position
                        /\ ~t_flip.close_sent /\ t_flip.entry_sent
                        /\ t_call.name = "enter_position"
              /\ t_pc \in {"flip_return", "loop"}
                     => /\ position_open /\ current_position = "long"
                        /\ t_inflight = NoneOrder
              /\ t_pc = "loop" => t_call = NoCall
    /\ ScenarioIndex = 4
           => /\ t_pc = "loop" /\ t_inflight = NoneOrder /\ t_call = NoCall
              /\ position_open /\ current_position = "long"
              /\ current_signal = "LONG"
    /\ ScenarioIndex = 5
           => /\ t_tick.held = "long"
              /\ t_pc # "loop"
                     => /\ t_flip.active /\ t_flip.had_position
                        /\ t_flip.close_sent
                        /\ t_flip.entry_sent
                               => t_flip.close_answered /\ t_flip.close_filled
              /\ t_pc = "flip_close_wait" => t_call.name = "close_position"
              /\ t_pc = "flip_entry_wait" => t_call.name = "enter_position"
              /\ t_pc \in {"flip_return", "loop"}
                     => /\ position_open /\ current_position = "short"
                        /\ position_direction = "short"
                        /\ t_inflight = NoneOrder
              /\ t_pc = "loop" => t_call = NoCall /\ current_signal = "SHORT"

\* The script has been played to its end.
C15_Witness ==
    /\ ScenarioIndex = 5
    /\ t_pc = "loop"
    /\ current_signal = "SHORT"
    /\ position_open /\ current_position = "short"

\* ========================================================================
\* Properties of the dashboard
\* ========================================================================

\* C17: as long as LIVE_TRADING=true is not set, no path of the dashboard
\* (start-bot, the worker loop, stop-bot) has POSTed an order.
C17_NoOrderUnlessLiveTrading ==
    ~w_live => w_posts = 0

\* Without LIVE_TRADING a bot was started, its loop has run on a screen
\* showing a target colour, and the bot was stopped.
C17_Witness ==
    /\ ~w_live
    /\ w_reply = "stopped"
    /\ w_tick.done /\ w_tick.signal # None
    /\ w_posts = 0

\* C18: after an iteration of the worker loop whose screen shows a signal
\* other than the bot's position_direction, trade_history is one record
\* longer, the record is FLIP or OPEN in the signal's direction, and the bot
\* is recorded open in that direction; after any other iteration
\* trade_history and the bot's position fields are as before.
C18_TickRecordsTrade ==
    w_tick.done =>
        IF w_tick.signal # None /\ w_tick.signal # w_tick.pre_direction
        THEN /\ Len(w_trade_history) = w_tick.pre_len + 1
             /\ w_trade_history[Len(w_trade_history)].action =
                    (IF w_tick.pre_open THEN "FLIP" ELSE "OPEN")
             /\ w_trade_history[Len(w_trade_history)].direction = w_tick.signal
             /\ w_bot.position_open
             /\ w_bot.position_direction = w_tick.signal
        ELSE /\ Len(w_trade_history) = w_tick.pre_len
             /\ w_bot.position_open = w_tick.pre_open
             /\ w_bot.position_direction = w_tick.pre_direction

\* C19: every key of the current_status a websocket handshake has sent was
\* last written by the worker loop (or is as the module created it, before
\* the first iteration), and all keys were written in the same iteration.
C19_SnapshotFromOneTick ==
    w_seen.taken =>
        /\ \A f \in StatusFields : w_seen.written[f].by \in {"module", "worker"}
        /\ \A f, g \in StatusFields :
               w_seen.written[f].tick = w_seen.written[g].tick

\* ========================================================================
\* Properties of the functions that use no field
\* ========================================================================

\* C21: hash_action hashes serialize(action), then the nonce as 8 bytes with
\* the most significant first, then the byte 0 when there is no vault and
\* otherwise the byte 1 and the 20 bytes of the vault address; the three
\* classes give the same result for the same arguments.
C21_HashActionPreimage ==
    p_fn = "hash_action" =>
        LET nonce == p_arg.nonce
            nonce_bytes == [k \in 1..8 |->
                               IF k <= 4 THEN 0
                               ELSE (nonce \div (256 ^ (8 - k))) % 256]
            vault_bytes ==
                IF ~p_arg.vault.given THEN <<0>>
                ELSE <<1>> \o [k \in 1..20 |-> 16 * p_arg.vault.hex[2 * k - 1]
                                                  + p_arg.vault.hex[2 * k]]
            expected == PackMap(p_arg.action) \o nonce_bytes \o vault_bytes
        IN  /\ p_out.trader.keccak = expected
            /\ p_out.hunter = p_out.trader
            /\ p_out.scalper = p_out.trader
            /\ Len(expected) = Len(PackMap(p_arg.action)) + 8
                                   + (IF p_arg.vault.given THEN 21 ELSE 1)

\* hash_action was called with a vault address and a nonce of more than
\* one byte.
C21_Witness ==
    /\ p_fn = "hash_action"
    /\ p_arg.vault.given
    /\ p_arg.nonce > 65536
    /\ Len(p_arg.action) = 4
    /\ p_out.hunter = p_out.scalper

C23_TraderStringsExactOrFail ==
    (p_fn = "trader_round_float" /\ p_arg.decimals = 2) =>
        \/ p_out.raised
        \/ SameNumber(ParseFloat(p_out.str), p_arg.x)

\* C24: what place_order_raw hands its caller tells the three classes of
\* outcome apart: an outcome of another class would have given the caller
\* something else, in the color trader and in the hunter.
C24_OutcomeClassesDistinguishable ==
    p_fn = "place_order_raw" =>
        \A other \in PostOutcomes :
            OutcomeClass(other) # OutcomeClass(p_arg)
                => /\ PlaceOrderRawResult(other) # p_out.trader
                   /\ hunter_place_order_raw(other) # p_out.hunter

\* ========================================================================
\* Orders of a transition
\* ========================================================================

\* C25: a flip_position that began with no position recorded open sends no
\* close order: the only order it sends is the entry, once.  A
\* flip_position that began with a position recorded open sends its close
\* order first: whatever it has in flight before the close is answered is
\* the close, and an entry is sent only after the close was answered.
C25_FlatEntersOpenClosesFirst ==
    t_flip.active =>
        IF ~t_flip.pre[2]
        THEN /\ ~t_flip.close_sent
             /\ t_call.name # "close_position"
             /\ t_call.posts <= 1
             /\ t_inflight # NoneOrder => t_inflight.kind = "entry"
        ELSE /\ t_flip.entry_sent => (t_flip.close_sent /\ t_flip.close_answered)
             /\ (t_inflight # NoneOrder /\ ~t_flip.close_answered)
                    => t_inflight.kind = "close"

\* From no position, the entry of a flip is in flight.
C25_Witness ==
    /\ t_flip.active /\ ~t_flip.pre[2]
    /\ t_pc = "flip_entry_wait"
    /\ t_inflight.kind = "entry"
    /\ ~t_flip.close_sent

\* C26: a close order in flight is reduce-only, sells when the recorded
\* direction is long and buys when it is short, and its size is the filled
\* size recorded from the entry; an entry order in flight is not
\* reduce-only.  For the color trader and for the hunter.
C26_CloseOrdersReduceOnlyOppositeFullSize ==
    /\ t_inflight.kind = "close"
           => /\ t_inflight.r
              /\ position_direction \in {"long", "short"}
              /\ t_inflight.b = (position_direction = "short")
              /\ TruthyData(entry_order_data)
              /\ t_inflight.s = entry_order_data.totalSz
              /\ t_inflight.s = position_size
    /\ t_inflight.kind = "entry" => ~t_inflight.r
    /\ h_inflight.kind = "close"
           => /\ Len(h_inflight.orders) = 1
              /\ h_inflight.orders[1].r
              /\ h_position_direction \in {"long", "short"}
              /\ h_inflight.orders[1].b = (h_position_direction = "short")
              /\ TruthyData(h_entry_order_data)
              /\ h_inflight.orders[1].s = h_entry_order_data.totalSz
    /\ h_inflight.kind = "grouped" => ~h_inflight.orders[1].r

\* The close order of a partly filled long position is in flight.
C26_Witness ==
    /\ t_inflight.kind = "close"
    /\ position_direction = "long"
    /\ ~t_inflight.b
    /\ position_size < EntryOrder("long", 10000).s

\* A grouped action built on the reference price ref: grouping normalTpsl;
\* three orders, the entry, the stop-loss and the take-profit in this
\* order; the entry not reduce-only; both trigger legs reduce-only, on the
\* other side and of the entry's size; the take-profit trigger not below and
\* the stop-loss trigger not above ref when the entry buys, the reverse when
\* it sells.
WellFormedGroup(action, ref) ==
    /\ action.grouping = "normalTpsl"
    /\ Len(action.orders) = 3
    /\ LET entry == action.orders[1]
           sl == action.orders[2]
           tp == action.orders[3]
       IN  /\ entry.t \in {"Ioc", "Gtc"} /\ ~entry.r
           /\ sl.t = "sl" /\ tp.t = "tp"
           /\ sl.r /\ tp.r
           /\ sl.b = ~entry.b /\ tp.b = ~entry.b
           /\ sl.s = entry.s /\ tp.s = entry.s
           /\ IF entry.b
              THEN tp.triggerPx >= ref /\ sl.triggerPx <= ref
              ELSE tp.triggerPx <= ref /\ sl.triggerPx >= ref

\* C27: every grouped action of OrderBookHunter.enter_position and of
\* UltimateScalpingBot.place_grouped_order is well formed on the entry
\* price it was computed from.
C27_GroupedActionWellFormed ==
    /\ h_inflight.kind = "grouped" => WellFormedGroup(h_inflight, h_local.entry_price)
    /\ s_inflight.kind = "grouped" => WellFormedGroup(s_inflight, s_entry_price)

\* The grouped action of a short entry of the hunter is in flight.
C27_Witness ==
    /\ h_inflight.kind = "grouped"
    /\ h_local.direction = "short"
    /\ ~h_inflight.orders[1].b
    /\ h_inflight.orders[3].triggerPx < h_local.entry_price

\* C28: OrderBookHunter sends no entry while position_open is true: a step
\* taken with a position recorded open puts no grouped entry action in
\* flight, and while one is in flight no position is recorded open.
C28_NoEntryWhilePositionOpen ==
    [][ /\ h_position_open
            => ~(h_inflight'.kind = "grouped" /\ h_inflight' # h_inflight)
        /\ h_inflight'.kind = "grouped" => ~h_position_open' ]_vars

\* A position has been held over a tick of the loop.
C28_Witness ==
    /\ h_position_open
    /\ h_pc = "loop"
    /\ h_clock >= h_entry_time + 2 * HunterLoopSleep
    /\ h_inflight = NoAction

\* C29: at most one thread is inside run_bot_with_updates, and a start-bot
\* that was answered 400 found the bot running.
C29_AtMostOneWorker ==
    /\ w_workers <= 1
    /\ w_reply = "400" => w_workers >= 1

\* C30: while bot_running is false no iteration of the worker loop is made,
\* and once bot_running is false every worker thread ends, unless the bot
\* is started again.
C30_WorkerEndsAfterStop ==
    /\ [][~w_bot_running => w_tickno' = w_tickno]_vars
    /\ (~w_bot_running /\ w_workers > 0) ~> (w_workers = 0 \/ w_bot_running)

\* The bot was stopped after an iteration of its loop and its worker thread
\* has ended.
C30_Witness ==
    /\ w_reply = "stopped"
    /\ ~w_bot_running
    /\ w_tick.done
    /\ w_workers = 0

\* ========================================================================
\* Properties of the strategies' control
\* ========================================================================

\* C31: execute_scalping_strategy POSTs its grouped action once, from the
\* start of the strategy and never from the monitoring loop; monitoring
\* starts only after that POST with a truthy return of place_grouped_order,
\* and never after a falsy one; the loop is left only by a price at or below
\* entry_price or by an interrupt; a pass in which the price feed raises
\* leaves the loop running and submits nothing.
C31_OneSubmissionThenMonitoring ==
    [][ /\ s_posts' # s_posts => (s_pc = "start" /\ s_posts' = 1)
        /\ s_pc' \in {"order_wait", "monitoring"} => s_posts' = 1
        /\ s_response' # NoneResult => s_posts' = 1
        /\ s_pc' = "monitoring" => RetTruthy(s_order_id')
        /\ (s_response' # NoneResult /\ ~RetTruthy(s_order_id'))
               => (s_pc' = "done" /\ s_poll' = NoPoll)
        /\ s_pc = "monitoring"
               => /\ s_posts' = s_posts
                  /\ s_inflight' = NoAction
                  /\ s_pc' # "monitoring"
                         => \/ /\ s_poll'.outcome = "hit"
                               /\ s_poll'.price <= s_entry_price
                            \/ s_poll'.outcome = "interrupt"
                  /\ s_poll'.outcome \in {"error", "above"}
                         => s_pc' = "monitoring"
                  /\ s_poll'.outcome = "above"
                         => s_poll'.price > s_entry_price ]_vars

\* The monitoring loop found the price at or below the entry price: the
\* strategy ended with its one POST.
C31_Witness ==
    /\ s_pc = "done"
    /\ s_poll.outcome = "hit"
    /\ s_posts = 1
    /\ RetTruthy(s_order_id)

\* C32: when run has processed a changed signal S, by a flip that succeeded
\* or failed or by finding the direction already held, current_signal is S;
\* and an iteration of run submits an order only for a detected direction
\* other than current_signal, so a failed entry or flip is not tried again
\* while the detections are S or none.
C32_SignalRecordedWhetherOrNotFlipped ==
    [][ /\ (t_pc' = "loop" /\ t_tick'.branch \in {"flip", "same_direction"})
               => current_signal' = t_tick'.signal
        /\ (t_pc = "flip_return" /\ t_pc' = "loop")
               => (current_signal' = t_tick.signal
                   /\ last_signal_time' = t_current_time)
        /\ (t_pc = "loop" /\ t_pc' \in TraderRunning
                /\ t_tick'.signal \in {None, current_signal})
               => (t_inflight' = NoneOrder /\ t_call' = t_call
                   /\ t_pc' = "loop")
        /\ (t_pc = "loop" /\ t_pc' \in TraderRunning
                /\ (t_inflight' # NoneOrder \/ t_pc' # "loop"))
               => (t_tick'.signal \in Signals
                   /\ t_tick'.signal # current_signal) ]_vars

\* A flip to long has failed (no position is held) and run is back in its
\* loop with LONG recorded as the current signal.
C32_Witness ==
    /\ t_pc = "loop"
    /\ t_tick.branch = "flip"
    /\ t_tick.signal = "LONG"
    /\ current_signal = "LONG"
    /\ current_position # "long"

\* C33: the position fields of ExperimentalColorTrader agree with one
\* another: position_open is true exactly when current_position is long or
\* short, current_position equals position_direction, an open position has
\* entry_order_data and position_size, and with no open position
\* current_position, position_direction, entry_order_data and position_size
\* are all None.
C33_PositionFieldsConsistent ==
    /\ position_open <=> current_position \in {"long", "short"}
    /\ current_position = position_direction
    /\ position_open => (entry_order_data # NoneData /\ position_size # NoneNum)
    /\ ~position_open
           => /\ current_position = None
              /\ position_direction = None
              /\ entry_order_data = NoneData
              /\ position_size = NoneNum

\* A flip closed the position held and its entry was not filled: run is
\* about to go back to its loop with no position.
C33_Witness ==
    /\ t_pc = "flip_return"
    /\ t_flip.close_filled
    /\ t_flip.entry_answered
    /\ ~t_flip.entry_filled
    /\ ~position_open

\* C34: a close_position of OrderBookHunter that has POSTed the cancel of
\* the protective orders and has returned, has POSTed the reduce-only close
\* order as well: the position is not recorded flat with the protective
\* orders cancelled and no close order sent.
C34_CancelFollowedByCloseOrder ==
    (h_close.cancel_sent /\ h_close.returned)
        => (h_close.close_sent /\ ~h_position_open)

\* C35: an iteration of OrderBookHunter.run that analyses a book while a
\* position has been recorded open for more than time_stop_seconds calls
\* close_position and starts no entry; and once close_position has been
\* called and is no longer in progress, position_open is false and
\* entry_time, entry_price, entry_order_data, position_direction and
\* position_size are reset.
C35_TimeStopClosesAndResets ==
    [][ /\ (h_pc = "loop" /\ h_position_open
                /\ h_clock - h_entry_time > time_stop_seconds * 1000)
               => /\ h_inflight'.kind # "grouped"
                  /\ h_entry'.called => h_entry' = h_entry
                  /\ \/ h_close'.called /\ h_close'.pre_open
                     \/ h_pc' = "done"
                     \/ \* no book was analysed
                        /\ h_pc' = "loop"
                        /\ h_close' = NoClose
                        /\ UNCHANGED hunterPos
        /\ (h_close'.called /\ h_pc' \notin {"cancel_wait", "close_wait"})
               => /\ ~h_position_open'
                  /\ h_entry_time' = NoneNum
                  /\ h_entry_price' = NoneNum
                  /\ h_entry_order_data' = NoneData
                  /\ h_position_direction' = None
                  /\ h_position_size' = NoneNum ]_vars

\* The time stop has closed a position: close_position was called with the
\* position open, its close order was answered, and run is back in its loop.
C35_Witness ==
    /\ h_pc = "loop"
    /\ h_close.called
    /\ h_close.pre_open
    /\ h_close.close_answered
    /\ ~h_position_open

\* C36: the notional enter_position computes for an accepted entry signal
\* (position_usd, in cents) is at least base_position_usd and at most
\* max_position_usd.
C36_NotionalBetweenBaseAndMax ==
    h_local # NoLocal
        => /\ base_position_usd * 100 <= h_local.position_usd
           /\ h_local.position_usd <= max_position_usd * 100

\* C37: ExperimentalColorTrader records the position flat after a close
\* order, and a flip goes on to its entry, only when the filled size the
\* close response reports is at least the position_size recorded when
\* close_position was called.
C37_FlatOnlyWhenCloseCoversSize ==
    /\ (t_flip.close_answered /\ (t_flip.close_filled \/ t_flip.entry_sent))
           => /\ HasFilled(t_flip.close_result)
              /\ FirstFilled(t_flip.close_result).totalSz >= t_flip.pre[4]
    /\ (t_call.name = "close_position" /\ t_call.returned /\ t_call.pre[2]
            /\ ~position_open)
           => /\ HasFilled(t_call.result)
              /\ FirstFilled(t_call.result).totalSz >= t_call.pre[4]

\* C38: an iteration of ExperimentalColorTrader.run whose detected signal
\* is None submits no order, leaves the position fields as they are (a
\* position held stays open), and leaves current_signal and
\* last_signal_time as they are.
C38_NeutralSignalChangesNothing ==
    [][ (t_pc = "loop" /\ t_pc' \in TraderRunning /\ t_tick'.signal = None)
            => /\ UNCHANGED traderPos
               /\ UNCHANGED <<current_signal, last_signal_time>>
               /\ t_inflight' = NoneOrder
               /\ t_call' = t_call
               /\ t_pc' = "loop" ]_vars

\* A neutral detection while a position is held and a signal is recorded.
C38_Witness ==
    /\ t_pc = "loop"
    /\ t_tick.signal = None
    /\ t_tick.branch = "unchanged"
    /\ position_open
    /\ current_signal \in Signals

====
